---- MODULE Spec2Model ----
(***************************************************************************)
(* Model of the job orchestration and reconciliation logic of Verdl's      *)
(* front end (src/src/main.js): the job registry (state.activeDownloads),  *)
(* the tombstone set (state.cancelledDownloads), the selection set         *)
(* (state.selectedVideos), the bounded dispatcher (handleDownloadAll,      *)
(* startSingleVideoDownload, startPlaylistDownload) and the event          *)
(* reconciler (the download-progress listener, updateDownloadProgress,     *)
(* updateDownloadsList and its eviction timers).                           *)
(*                                                                         *)
(* JavaScript runs every handler to completion: one action is the          *)
(* synchronous part of a handler up to its next await (the invoke that the *)
(* await is applied to is issued in that same part), or the continuation   *)
(* that runs when an awaited call returns or a timer fires.                *)
(***************************************************************************)
EXTENDS Naturals, Integers, Sequences, FiniteSets, Bags, TLC

\* ------------------------------------------------------------------ bounds

\* Inputs of one run that start or cancel jobs or report on them: clicks on
\* Download that take the single-item path, clicks on a Cancel button or on
\* Cancel All, and progress events of the engine.
MaxInputs == 5
\* Eviction timers pending at once.
MaxTimers == 2
\* Eviction timers pending at once in the specification of cancellation.
MaxCancelTimers == 1
\* fetch_metadata calls in flight at once.
MaxFetchCalls == 2
\* Videos in a fetched collection.
MaxVideos == 3
\* Start calls that the playlist dispatches of one run issue.
MaxBatchStarts == 3
\* Start calls of one run of the specification of selection and dispatch.
MaxSelectInputs == 1
\* Inputs (as counted by MaxInputs) of one run of the specification of the
\* reconciler.
MaxReconcileInputs == 3
\* Clicks and events while a playlist dispatch is cancelled.
MaxOverlapInputs == 3
\* Clicks and events while eviction timers are pending.
MaxEvictInputs == 4
\* Clicks and progress events between error events.
MaxErrorInputs == 2
\* Values of the concurrency slider that the user picks in the model.
MaxConcurrent == 2
\* The folder dialogs of handleChangePath that are open at the same time.
MaxDialogs == 1

\* ------------------------------------------------------- JavaScript values

\* undefined, for a string-valued field or parameter.
Undefined == "<undefined>"
\* An optional boolean: <<>> is undefined, <<b>> is b.
NoBool == <<>>
Bool(b) == <<b>>
\* Truthiness of a string-valued optional: undefined and '' are falsy.
Truthy(s) == s # Undefined /\ s # ""
\* a || b for string-valued optionals.
OrElse(a, b) == IF Truthy(a) THEN a ELSE b
\* converting || false.
OrFalse(c) == IF c = NoBool THEN FALSE ELSE c[1]

\* No job ID: the result of a start call that the engine rejects.
NoJob == 0
\* No metadata fetched yet (state.currentMetadata === null).
NoMetadata == <<>>

ActiveStatuses == {"downloading", "starting", "converting", "download_complete"}
TerminalStatuses == {"completed", "failed"}
\* The statuses with which the engine reports that a job has ended.
EndStatuses == TerminalStatuses \cup {"cancelled"}
CancellableStatuses == {"downloading", "converting", "download_complete"}

\* ------------------------------------------------------------------- state

VARIABLES
  ytdlpInstalled,       \* state.ytdlpInstalled
  statusChecked,        \* checkYtdlpStatus's invoke has returned
  currentUrl,           \* state.currentUrl
  currentMetadata,      \* state.currentMetadata: NoMetadata or [url, videos]
  selectedVideos,       \* state.selectedVideos
  concurrentDownloads,  \* state.concurrentDownloads
  selectedFormat,       \* state.selectedFormat
  outputPath,           \* state.outputPath
  pathLoaded,           \* loadDownloadPath's invoke has returned
  updateYtdlpBtnDisabled, \* elements.updateYtdlpBtn.disabled
  folderDialogs,        \* folder dialogs of handleChangePath that are open
  downloadAllBtnDisabled, \* elements.downloadAllBtn.disabled
  activeDownloads,      \* state.activeDownloads, a Map in insertion order
  downloadCounter,      \* state.downloadCounter
  downloadsList,        \* the job IDs of the items of elements.downloadsList, in order
  cancelledDownloads,   \* state.cancelledDownloads
  timers,               \* pending eviction timers: a bag of job IDs
  fetchBtnDisabled,     \* elements.fetchBtn.disabled
  fetchCalls,           \* fetch_metadata calls in flight: a bag of URLs
  startLog,             \* every download_video call issued, in order
  startPending,         \* indices of startLog whose call has not returned
  cancelCalls,          \* cancel_download calls of handleCancelDownload in flight
  cancelAlls,           \* handleCancelDownloads runs awaiting a cancel call
  dispatches,           \* startPlaylistDownload runs
  lastToast,            \* the last showToast(message, type)
  inputs,               \* the inputs counted by MaxInputs so far
  cancelSucceeded,      \* the IDs whose cancel call of handleCancelDownload succeeded
  onlyEventsSinceCancelAll, \* a handleCancelDownloads run has ended, and every
                            \* step since then delivered a progress event
  terminated            \* the IDs of which an event reported the end of the job

settingsVars == <<selectedFormat, outputPath, pathLoaded, updateYtdlpBtnDisabled,
                  folderDialogs>>
configVars == <<ytdlpInstalled, statusChecked, currentUrl, concurrentDownloads,
                settingsVars>>
batchVars == <<currentMetadata, selectedVideos, fetchBtnDisabled, fetchCalls,
               downloadAllBtnDisabled>>
registryVars == <<activeDownloads, downloadCounter, downloadsList, timers>>
engineVars == <<startLog, startPending>>
cancelVars == <<cancelledDownloads, cancelCalls, cancelAlls>>
vars == <<configVars, batchVars, registryVars, engineVars, cancelVars,
          dispatches, lastToast, inputs, cancelSucceeded, onlyEventsSinceCancelAll,
          terminated>>

\* ------------------------------------------------------------ the registry

\* Map.prototype.has
Has(m, id) == \E i \in DOMAIN m : m[i].id = id
IndexOf(m, id) == CHOOSE i \in DOMAIN m : m[i].id = id
\* Map.prototype.get
Get(m, id) == m[IndexOf(m, id)]
\* Map.prototype.set: an existing key keeps its place, a new key goes last.
MapSet(m, d) ==
  IF Has(m, d.id) THEN [m EXCEPT ![IndexOf(m, d.id)] = d] ELSE Append(m, d)
\* A delete that removes the oldest entry when the key is absent.
MapDeleteOrOldest(m, id) ==
  IF \E i \in DOMAIN m : m[i].id = id
    THEN SelectSeq(m, LAMBDA d : d.id # id)
    ELSE IF m = <<>> THEN m ELSE Tail(m)

\* Map.prototype.delete
MapDelete(m, id) == SelectSeq(m, LAMBDA d : d.id # id)
\* Array.from(map.keys())
Keys(m) == [i \in DOMAIN m |-> m[i].id]
KeySet(m) == {m[i].id : i \in DOMAIN m}
Range(s) == {s[i] : i \in DOMAIN s}

\* The active view: the jobs that updateDownloadsList renders and counts.
ActiveView(m) == SelectSeq(m, LAMBDA d : d.status \in ActiveStatuses)
ActiveIds(m) == KeySet(ActiveView(m))
TerminalIds(m) == {m[i].id : i \in {j \in DOMAIN m : m[j].status \in TerminalStatuses}}

\* A list update that builds every item anew, in the order of the registry.
RenderListRebuilt(list, m) == Keys(ActiveView(m))

\* A list update that creates the items of new jobs and removes none.
RenderListAppendOnly(list, m) ==
  list \o SelectSeq(Keys(ActiveView(m)), LAMBDA id : id \notin Range(list))

\* The second half of updateDownloadsList: the items of jobs that are no
\* longer in the active view are removed, the items that stay keep their
\* place, and the items of new jobs are appended in the order of the view.
RenderList(list, m) ==
  LET currentIds == Keys(ActiveView(m))
      kept == SelectSeq(list, LAMBDA id : id \in Range(currentIds))
  IN kept \o SelectSeq(currentIds, LAMBDA id : id \notin Range(kept))

\* A list update that schedules no eviction.
UpdateDownloadsListNoEviction(m, t) ==
  /\ downloadCounter' = Len(ActiveView(m))
  /\ downloadsList' = RenderList(downloadsList, m)
  /\ timers' = t

\* updateDownloadsList on registry m (the value of state.activeDownloads when
\* it is called) with the pending timers t: sets the counter, schedules one
\* eviction timer for every job that is completed or failed, and brings the
\* list of items up to date. The guard keeps the pending timers within
\* MaxTimers.
UpdateDownloadsList(m, t) ==
  /\ BagCardinality(t) + Cardinality(TerminalIds(m)) <= MaxTimers
  /\ downloadCounter' = Len(ActiveView(m))
  /\ downloadsList' = RenderList(downloadsList, m)
  /\ timers' = t (+) SetToBag(TerminalIds(m))

\* removeDownload(id)
RemoveDownload(id) ==
  /\ activeDownloads' = MapDelete(activeDownloads, id)
  /\ UpdateDownloadsList(activeDownloads', timers)

\* A step that is neither a progress event nor the end of handleCancelDownloads.
OtherStep == onlyEventsSinceCancelAll' = FALSE /\ UNCHANGED terminated

\* showToast(message, type): the toast appended last.
ShowToast(msg, type) == lastToast' = [msg |-> msg, type |-> type]

\* ------------------------------------------------------------------ strings

\* String.prototype.toLowerCase. A string of the model has characters up to
\* U+00FF; of these toLowerCase changes the letters A to Z and the capital
\* letters U+00C0 to U+00DE (the multiplication sign U+00D7 is no letter), each
\* to the letter 32 places further, and leaves every other character.
UpperLetters ==
  "ABCDEFGHIJKLMNOPQRSTUVWXYZ" \o "ÀÁÂÃÄÅÆÇÈÉÊËÌÍÎÏÐÑÒÓÔÕÖØÙÚÛÜÝÞ"
LowerLetters ==
  "abcdefghijklmnopqrstuvwxyz" \o "àáâãäåæçèéêëìíîïðñòóôõöøùúûüýþ"
LowerOf ==
  [c \in {SubSeq(UpperLetters, i, i) : i \in 1..Len(UpperLetters)} |->
     LET i == CHOOSE j \in 1..Len(UpperLetters) : SubSeq(UpperLetters, j, j) = c
     IN SubSeq(LowerLetters, i, i)]
LowerChar(c) == IF c \in DOMAIN LowerOf THEN LowerOf[c] ELSE c

\* A conversion that leaves the message as it is.
ToLowerCaseSkipped(str) == str

RECURSIVE ToLowerCase(_)
ToLowerCase(str) ==
  IF Len(str) = 0 THEN ""
  ELSE LowerChar(SubSeq(str, 1, 1)) \o ToLowerCase(SubSeq(str, 2, Len(str)))

\* String.prototype.includes
Includes(str, sub) ==
  \E i \in 1..(Len(str) - Len(sub) + 1) : SubSeq(str, i, i + Len(sub) - 1) = sub

\* String.prototype.trim: the white space and line ends at both ends of the
\* string are removed. Of the characters up to U+00FF these are U+0009,
\* U+000A, U+000B, U+000C, U+000D, U+0020 and U+00A0; the line tabulation
\* U+000B and the no-break space U+00A0 stand in the set as the characters
\* themselves, after the five that have a notation.
WhiteSpace == {"\t", "\n", "\f", "\r", " ", "", " "}
RECURSIVE TrimStart(_)
TrimStart(str) ==
  IF Len(str) > 0 /\ SubSeq(str, 1, 1) \in WhiteSpace
    THEN TrimStart(SubSeq(str, 2, Len(str)))
    ELSE str
RECURSIVE TrimEnd(_)
TrimEnd(str) ==
  IF Len(str) > 0 /\ SubSeq(str, Len(str), Len(str)) \in WhiteSpace
    THEN TrimEnd(SubSeq(str, 1, Len(str) - 1))
    ELSE str
Trim(str) == TrimEnd(TrimStart(str))

\* -------------------------------------------------------------- the engine

\* The job IDs the engine has assigned so far.
EngineJobs == {startLog[i].res : i \in DOMAIN startLog} \ {NoJob}
\* The engine numbers its jobs.
NextJobId == Cardinality(EngineJobs) + 1

\* The entry of startLog for invoke('download_video', {url, downloadType,
\* outputPath, title, ...}) issued by the single-item path (by = 0) or by
\* playlist dispatch number by, for the item at place item of its videos. ok is
\* the engine's answer: it assigns the next job ID, or rejects the call
\* (NoJob). The answer reaches the caller when the call returns.
StartCall(log, by, item, video, url, downloadType, path, ok) ==
  [by |-> by, item |-> item, url |-> url, downloadType |-> downloadType,
   outputPath |-> path, title |-> video.title,
   res |-> IF ok THEN Cardinality({log[i].res : i \in DOMAIN log} \ {NoJob}) + 1
                 ELSE NoJob]

BatchCalls == {i \in DOMAIN startLog : startLog[i].by # 0}


\* -------------------------------------------------------------------- Init

\* No toast shown yet.
NoToast == [msg |-> "", type |-> ""]
\* state.outputPath before a folder is known: the empty string.
NoPath == ""

Init ==
  /\ ytdlpInstalled = FALSE
  /\ statusChecked = FALSE
  /\ currentUrl = ""
  /\ currentMetadata = NoMetadata
  /\ selectedVideos = {}
  /\ concurrentDownloads = 1
  /\ selectedFormat = "video"
  /\ outputPath = NoPath
  /\ pathLoaded = FALSE
  /\ updateYtdlpBtnDisabled = FALSE
  /\ folderDialogs = 0
  /\ downloadAllBtnDisabled = FALSE
  /\ activeDownloads = <<>>
  /\ downloadCounter = 0
  /\ downloadsList = <<>>
  /\ cancelledDownloads = {}
  /\ timers = EmptyBag
  /\ fetchBtnDisabled = FALSE
  /\ fetchCalls = EmptyBag
  /\ startLog = <<>>
  /\ startPending = {}
  /\ cancelCalls = EmptyBag
  /\ cancelAlls = <<>>
  /\ dispatches = <<>>
  /\ lastToast = NoToast
  /\ inputs = 0
  /\ cancelSucceeded = {}
  /\ terminated = {}
  /\ onlyEventsSinceCancelAll = FALSE

\* ------------------------------------------------- status check, URL, fetch

\* What an invoke throws when the engine rejects the call: the text of the
\* error.
ErrorTexts == {"ENOENT", "timed out"}

\* checkYtdlpStatus, when invoke('check_ytdlp_installed') returns installed
\* (true or false).
CheckYtdlpStatusReturn(installed) ==
  /\ ~statusChecked
  /\ statusChecked' = TRUE
  /\ ytdlpInstalled' = installed
  /\ IF installed
       THEN UNCHANGED lastToast
       ELSE ShowToast("yt-dlp not found. Installing...", "warning")
  /\ UNCHANGED <<currentUrl, concurrentDownloads, settingsVars, batchVars, registryVars,
                 engineVars, cancelVars, dispatches, inputs, cancelSucceeded>>
  /\ OtherStep

\* checkYtdlpStatus, when the invoke throws error: state.ytdlpInstalled stays
\* as it is.
CheckYtdlpStatusError(error) ==
  /\ ~statusChecked
  /\ statusChecked' = TRUE
  /\ ShowToast("Error checking yt-dlp: " \o error, "error")
  /\ UNCHANGED <<ytdlpInstalled, currentUrl, concurrentDownloads, settingsVars, batchVars,
                 registryVars, engineVars, cancelVars, dispatches, inputs, cancelSucceeded>>
  /\ OtherStep

\* The folder that select_download_folder returns, and the one that the user
\* chooses in the dialog of handleChangePath.
DefaultPath == "/home/u/Downloads"
ChosenPath == "/media/videos"

\* loadDownloadPath, which initialize calls after checkYtdlpStatus, when
\* invoke('select_download_folder') throws: the catch block leaves
\* state.outputPath as it is.
LoadDownloadPathError ==
  /\ statusChecked
  /\ ~pathLoaded
  /\ pathLoaded' = TRUE
  /\ UNCHANGED <<ytdlpInstalled, statusChecked, currentUrl, concurrentDownloads,
                 selectedFormat, outputPath, updateYtdlpBtnDisabled, folderDialogs,
                 batchVars, registryVars, engineVars, cancelVars, dispatches, lastToast,
                 inputs, cancelSucceeded>>
  /\ OtherStep

\* loadDownloadPath when invoke('select_download_folder') returns path.
LoadDownloadPathReturn(path) ==
  /\ statusChecked
  /\ ~pathLoaded
  /\ pathLoaded' = TRUE
  /\ outputPath' = path
  /\ UNCHANGED <<ytdlpInstalled, statusChecked, currentUrl, concurrentDownloads,
                 selectedFormat, updateYtdlpBtnDisabled, folderDialogs, batchVars,
                 registryVars, engineVars, cancelVars, dispatches, lastToast, inputs,
                 cancelSucceeded>>
  /\ OtherStep

\* What update_ytdlp answers in the model.
UpdateResults == {"Already up to date", "yt-dlp is Up To Date", "Updated to 2025.01.15"}

\* handleUpdateYtdlp up to its await: the button is disabled (a disabled button
\* takes no click) and the update call is issued.
HandleUpdateYtdlp ==
  /\ ~updateYtdlpBtnDisabled
  /\ updateYtdlpBtnDisabled' = TRUE
  /\ ShowToast("Checking for updates...", "info")
  /\ UNCHANGED <<ytdlpInstalled, statusChecked, currentUrl, concurrentDownloads,
                 selectedFormat, outputPath, pathLoaded, folderDialogs, batchVars,
                 registryVars, engineVars, cancelVars, dispatches, inputs, cancelSucceeded>>
  /\ OtherStep

\* The test of handleUpdateYtdlp on the answer of update_ytdlp.
IsUpToDate(result) ==
  LET resultLower == ToLowerCase(result)
  IN Includes(resultLower, "up to date") \/ Includes(resultLower, "already")

\* handleUpdateYtdlp when invoke('update_ytdlp') returns result: the toast tells
\* whether yt-dlp was updated, and the finally block enables the button.
UpdateYtdlpReturn(result) ==
  /\ updateYtdlpBtnDisabled
  /\ updateYtdlpBtnDisabled' = FALSE
  /\ IF IsUpToDate(result)
       THEN ShowToast("yt-dlp is already up to date", "success")
       ELSE ShowToast("yt-dlp updated successfully!", "success")
  /\ UNCHANGED <<ytdlpInstalled, statusChecked, currentUrl, concurrentDownloads,
                 selectedFormat, outputPath, pathLoaded, folderDialogs, batchVars,
                 registryVars, engineVars, cancelVars, dispatches, inputs, cancelSucceeded>>
  /\ OtherStep

\* handleUpdateYtdlp when the invoke throws error.
UpdateYtdlpError(error) ==
  /\ updateYtdlpBtnDisabled
  /\ updateYtdlpBtnDisabled' = FALSE
  /\ ShowToast("Failed to update yt-dlp: " \o error, "error")
  /\ UNCHANGED <<ytdlpInstalled, statusChecked, currentUrl, concurrentDownloads,
                 selectedFormat, outputPath, pathLoaded, folderDialogs, batchVars,
                 registryVars, engineVars, cancelVars, dispatches, inputs, cancelSucceeded>>
  /\ OtherStep

\* handleChangePath up to its await: the folder dialog opens.
HandleChangePath ==
  /\ folderDialogs < MaxDialogs
  /\ folderDialogs' = folderDialogs + 1
  /\ UNCHANGED <<ytdlpInstalled, statusChecked, currentUrl, concurrentDownloads,
                 selectedFormat, outputPath, pathLoaded, updateYtdlpBtnDisabled, batchVars,
                 registryVars, engineVars, cancelVars, dispatches, lastToast, inputs,
                 cancelSucceeded>>
  /\ OtherStep

\* handleChangePath when the dialog returns selected: a folder, or nothing
\* (NoPath) when the user closes the dialog.
ChangePathReturn(selected) ==
  /\ folderDialogs > 0
  /\ folderDialogs' = folderDialogs - 1
  /\ IF selected # NoPath
       THEN /\ outputPath' = selected
            /\ ShowToast("Download folder updated", "success")
       ELSE UNCHANGED <<outputPath, lastToast>>
  /\ UNCHANGED <<ytdlpInstalled, statusChecked, currentUrl, concurrentDownloads,
                 selectedFormat, pathLoaded, updateYtdlpBtnDisabled, batchVars,
                 registryVars, engineVars, cancelVars, dispatches, inputs, cancelSucceeded>>
  /\ OtherStep

\* handleChangePath when the dialog throws.
ChangePathError ==
  /\ folderDialogs > 0
  /\ folderDialogs' = folderDialogs - 1
  /\ ShowToast("Failed to change folder", "error")
  /\ UNCHANGED <<ytdlpInstalled, statusChecked, currentUrl, concurrentDownloads,
                 selectedFormat, outputPath, pathLoaded, updateYtdlpBtnDisabled, batchVars,
                 registryVars, engineVars, cancelVars, dispatches, inputs, cancelSucceeded>>
  /\ OtherStep

\* The formats of the format buttons (data-format).
Formats == {"video", "audio"}

\* handleFormatSelection, the click listener of the button of format.
HandleFormatSelection(format) ==
  /\ selectedFormat' = format
  /\ UNCHANGED <<ytdlpInstalled, statusChecked, currentUrl, concurrentDownloads,
                 outputPath, pathLoaded, updateYtdlpBtnDisabled, folderDialogs, batchVars,
                 registryVars, engineVars, cancelVars, dispatches, lastToast, inputs,
                 cancelSucceeded>>
  /\ OtherStep

\* The URLs of the model: a single video's, a collection's, and one that is
\* not a YouTube URL.
SingleUrl == "https://YouTu.be/v"
ListUrl == "https://www.youtube.com/playlist?list=p"
OtherUrl == "https://example.com/youtube"

\* What the model types into the input field: white space only (a space and
\* a line tabulation), and the URLs, those of YouTube with white space around
\* them.
UrlValues ==
  {" ", " " \o SingleUrl \o "\n", "\t" \o ListUrl, OtherUrl}

\* The empty string is not valid; any other is valid when, in lower case, it
\* has 'youtube.com' or 'youtu.be' in it.
IsValidUrl(url) ==
  /\ url # ""
  /\ \/ Includes(ToLowerCase(url), "youtube.com")
     \/ Includes(ToLowerCase(url), "youtu.be")

\* e.target.value.trim() and the test of it, for each value the model types
\* (computed once).
TrimmedValue == [value \in UrlValues |-> Trim(value)]
IsValidValue == [value \in UrlValues |-> IsValidUrl(Trim(value))]

\* handleUrlInput: the value of the input field is trimmed and stored, and the
\* fetch button is enabled for a valid URL only.
HandleUrlInput(value) ==
  /\ currentUrl' = TrimmedValue[value]
  /\ fetchBtnDisabled' = ~IsValidValue[value]
  /\ UNCHANGED <<ytdlpInstalled, statusChecked, concurrentDownloads, settingsVars,
                 currentMetadata, selectedVideos, fetchCalls, downloadAllBtnDisabled,
                 registryVars,
                 engineVars, cancelVars, dispatches, lastToast, inputs, cancelSucceeded>>
  /\ OtherStep

\* handleFetchMetadata up to its await: the click (or Enter) needs the button
\* enabled.
HandleFetchMetadata ==
  /\ ~fetchBtnDisabled
  /\ IF ~ytdlpInstalled
       THEN /\ ShowToast("yt-dlp is not installed", "error")
            /\ UNCHANGED <<fetchBtnDisabled, fetchCalls>>
       ELSE IF currentUrl = ""
         THEN /\ ShowToast("Please enter a URL first", "error")
              /\ UNCHANGED <<fetchBtnDisabled, fetchCalls>>
         ELSE /\ BagCardinality(fetchCalls) < MaxFetchCalls
              /\ fetchBtnDisabled' = TRUE
              /\ fetchCalls' = fetchCalls (+) SetToBag({currentUrl})
              /\ UNCHANGED lastToast
  /\ UNCHANGED <<configVars, currentMetadata, selectedVideos, downloadAllBtnDisabled,
                 registryVars, engineVars, cancelVars, dispatches, inputs, cancelSucceeded>>
  /\ OtherStep

VideoTitles == <<"A", "B", "C", "D", "E">>
\* The metadata that fetch_metadata returns for url when it finds n videos.
Metadata(url, n) ==
  [url |-> url,
   videos |-> [i \in 1..n |->
                 [title |-> VideoTitles[i], url |-> url \o "&v=" \o ToString(i)]]]

\* Indices that count the candidate list from 1.
IndicesFromOne(metadata) ==
  IF metadata = NoMetadata THEN {} ELSE DOMAIN metadata.videos

\* Indices 0..n-1 of the candidate list.
Indices(metadata) ==
  IF metadata = NoMetadata THEN {} ELSE {i - 1 : i \in DOMAIN metadata.videos}

\* A displayMetadata that adds the indices without clearing the set first.
SeedSelectionKeeping(selected, metadata) == selected \cup Indices(metadata)

\* displayMetadata: the selection is cleared and every index of
\* metadata.videos is added.
SeedSelection(selected, metadata) == {} \cup Indices(metadata)

\* The toast of handleFetchMetadata when the fetch returns video_count = n
\* videos.
FoundToast(n) == [msg |-> "Found " \o ToString(n) \o " video(s)", type |-> "success"]

\* updateDownloadButtonText: the Download button is disabled when no video is
\* selected and enabled otherwise.
UpdateDownloadButtonText(selected) ==
  downloadAllBtnDisabled' = (Cardinality(selected) = 0)

\* The metadata for each URL of the model and each number of videos (computed
\* once).
MetadataOf ==
  [url \in {TrimmedValue[value] : value \in UrlValues}, n \in 1..MaxVideos |->
     Metadata(url, n)]

\* handleFetchMetadata when invoke('fetch_metadata', {url}) returns with n
\* videos: state.currentMetadata is set and displayMetadata selects all.
FetchReturnOk(url, n) ==
  /\ BagIn(url, fetchCalls)
  /\ fetchCalls' = fetchCalls (-) SetToBag({url})
  /\ currentMetadata' = MetadataOf[url, n]
  /\ selectedVideos' = SeedSelection(selectedVideos, currentMetadata')
  /\ UpdateDownloadButtonText(selectedVideos')
  /\ ShowToast(FoundToast(n).msg, FoundToast(n).type)
  /\ fetchBtnDisabled' = FALSE
  /\ UNCHANGED <<configVars, registryVars, engineVars, cancelVars, dispatches, inputs, cancelSucceeded>>
  /\ OtherStep

\* The test of handleFetchMetadata's catch block and of the download-error
\* listener on the message of the error.
IsBotError(error) ==
  LET errorMsg == ToLowerCase(error)
  IN Includes(errorMsg, "bot") \/ Includes(errorMsg, "sign in to confirm")

\* What fetch_metadata throws in the model.
FetchErrors == {"HTTP 403", "No Bots"}

\* The test on each of them (computed once).
IsBotFetchError == [error \in FetchErrors |-> IsBotError(error)]

\* handleFetchMetadata when the invoke throws error.
FetchReturnError(url, error) ==
  /\ BagIn(url, fetchCalls)
  /\ fetchCalls' = fetchCalls (-) SetToBag({url})
  /\ IF IsBotFetchError[error]
       THEN ShowToast("YouTube bot detected. Try updating yt-dlp.", "warning")
       ELSE ShowToast("Failed to fetch metadata: " \o error, "error")
  /\ fetchBtnDisabled' = FALSE
  /\ UNCHANGED <<configVars, currentMetadata, selectedVideos, downloadAllBtnDisabled,
                 registryVars, engineVars, cancelVars, dispatches, inputs, cancelSucceeded>>
  /\ OtherStep

\* ------------------------------------------------------ selection, slider

\* The change handler of the checkbox of video index (createVideoItem): the
\* checkbox shows the membership, so a click flips it.
ToggleVideo(index) ==
  /\ index \in Indices(currentMetadata)
  /\ selectedVideos' = IF index \in selectedVideos
                         THEN selectedVideos \ {index}
                         ELSE selectedVideos \cup {index}
  /\ UpdateDownloadButtonText(selectedVideos')
  /\ UNCHANGED <<configVars, currentMetadata, fetchBtnDisabled, fetchCalls,
                 registryVars, engineVars, cancelVars, dispatches, lastToast, inputs, cancelSucceeded>>
  /\ OtherStep

\* handleSelectAllToggle's test: the size of the selection is the number of
\* videos (never so without metadata: a number is not undefined).
AllSelected(selected, metadata) ==
  /\ metadata # NoMetadata
  /\ Cardinality(selected) = Len(metadata.videos)

\* A select-all that flips every index: the selected ones are dropped and the
\* others added.
SelectAllFlipping(selected, metadata) ==
  (selected \cup Indices(metadata)) \ (selected \cap Indices(metadata))

\* The select-all branch of handleSelectAllToggle: the index of every video
\* is added to the selection.
SelectAll(selected, metadata) == selected \cup Indices(metadata)

\* The deselect-all branch of handleSelectAllToggle: selectedVideos.clear().
DeselectAll(selected) == {}

\* The selection after handleSelectAllToggle: cleared when all are selected,
\* every index added otherwise.
ToggledAll(selected, metadata) ==
  IF AllSelected(selected, metadata)
    THEN DeselectAll(selected)
    ELSE SelectAll(selected, metadata)

\* handleSelectAllToggle
HandleSelectAllToggle ==
  /\ selectedVideos' = ToggledAll(selectedVideos, currentMetadata)
  /\ UpdateDownloadButtonText(selectedVideos')
  /\ UNCHANGED <<configVars, currentMetadata, fetchBtnDisabled, fetchCalls,
                 registryVars, engineVars, cancelVars, dispatches, lastToast, inputs, cancelSucceeded>>
  /\ OtherStep

\* handleConcurrentChange
HandleConcurrentChange(value) ==
  /\ concurrentDownloads' = value
  /\ UNCHANGED <<ytdlpInstalled, statusChecked, currentUrl, settingsVars, batchVars,
                 registryVars, engineVars, cancelVars, dispatches, lastToast, inputs, cancelSucceeded>>
  /\ OtherStep

\* ------------------------------------------------------ event reconciler

\* An updateDownloadProgress that skips the event of a job it does not know.
UpsertKnownOnly(m, id, progress, status, title, downloadType, converting) ==
  IF ~Has(m, id) THEN m
  ELSE MapSet(m, [Get(m, id) EXCEPT
                    !.progress = progress,
                    !.status = status,
                    !.title = IF Truthy(title) THEN title ELSE @,
                    !.converting = IF converting # NoBool THEN converting ELSE @])

\* An updateDownloadProgress that stores the title and the converting flag of
\* every event, defaulted when the event omits them.
UpsertOverwriting(m, id, progress, status, title, downloadType, converting) ==
  IF ~Has(m, id)
    THEN MapSet(m, [id |-> id,
                    title |-> OrElse(title, "Unknown"),
                    url |-> Undefined,
                    progress |-> progress,
                    status |-> status,
                    downloadType |-> OrElse(downloadType, "video"),
                    converting |-> Bool(OrFalse(converting))])
    ELSE MapSet(m, [Get(m, id) EXCEPT
                      !.progress = progress,
                      !.status = status,
                      !.title = OrElse(title, "Unknown"),
                      !.converting = Bool(OrFalse(converting))])

\* updateDownloadProgress's change of the registry m for a job that is not
\* tombstoned: a new job is created with defaults, a known job is updated in
\* place.
Upsert(m, id, progress, status, title, downloadType, converting) ==
  IF ~Has(m, id)
    THEN MapSet(m, [id |-> id,
                    title |-> OrElse(title, "Unknown"),
                    url |-> Undefined,
                    progress |-> progress,
                    status |-> status,
                    downloadType |-> OrElse(downloadType, "video"),
                    converting |-> Bool(OrFalse(converting))])
    ELSE MapSet(m, [Get(m, id) EXCEPT
                      !.progress = progress,
                      !.status = status,
                      !.title = IF Truthy(title) THEN title ELSE @,
                      !.converting = IF converting # NoBool THEN converting ELSE @])

\* Whether updateDownloadProgress skips the event of job id.
IsTombstoned(id) == id \in cancelledDownloads

\* updateDownloadProgress
UpdateDownloadProgress(id, progress, status, title, downloadType, converting) ==
  IF IsTombstoned(id)
    THEN UNCHANGED registryVars
    ELSE /\ activeDownloads' =
              Upsert(activeDownloads, id, progress, status, title, downloadType, converting)
         /\ UpdateDownloadsList(activeDownloads', timers)

\* A download-progress listener without the test for the status cancelled.
DownloadProgressEventUnfiltered(id, progress, status, title, downloadType, converting) ==
  /\ id \in EngineJobs
  /\ inputs < MaxInputs
  /\ inputs' = inputs + 1
  /\ UpdateDownloadProgress(id, progress, status, title, downloadType, converting)
  /\ terminated' = IF status \in EndStatuses THEN terminated \cup {id} ELSE terminated
  /\ UNCHANGED <<configVars, batchVars, engineVars, cancelVars, dispatches, lastToast,
                 cancelSucceeded, onlyEventsSinceCancelAll>>

\* The download-progress listener, for an event of a job the engine runs.
DownloadProgressEvent(id, progress, status, title, downloadType, converting) ==
  /\ id \in EngineJobs
  /\ inputs < MaxInputs
  /\ inputs' = inputs + 1
  /\ IF status = "cancelled"
       THEN RemoveDownload(id)
       ELSE UpdateDownloadProgress(id, progress, status, title, downloadType, converting)
  /\ terminated' = IF status \in EndStatuses THEN terminated \cup {id} ELSE terminated
  /\ UNCHANGED <<configVars, batchVars, engineVars, cancelVars, dispatches, lastToast,
                 cancelSucceeded, onlyEventsSinceCancelAll>>

\* The download-error listener, for an event with message error.
DownloadErrorEvent(error) ==
  /\ UNCHANGED <<configVars, batchVars, registryVars, engineVars, cancelVars, dispatches,
                 inputs, cancelSucceeded>>
  /\ OtherStep
  /\ IF IsBotError(error)
       THEN ShowToast("YouTube bot detected. Try updating yt-dlp.", "warning")
       ELSE ShowToast("Download failed: " \o error, "error")

\* The callback of an eviction timer scheduled by updateDownloadsList for id.
EvictionTimer(id) ==
  /\ BagIn(id, timers)
  /\ activeDownloads' = MapDelete(activeDownloads, id)
  /\ UpdateDownloadsList(activeDownloads', timers (-) SetToBag({id}))
  /\ UNCHANGED <<configVars, batchVars, engineVars, cancelVars, dispatches, lastToast, inputs, cancelSucceeded>>
  /\ OtherStep

\* ------------------------------------------------------------ cancellation

\* The tombstones after handleCancelDownload marks downloadId.
MarkCancelled(downloadId) == cancelledDownloads \cup {downloadId}

\* handleCancelDownload up to its await. The handler is the click listener of
\* the Cancel button of the job's element, which exists while the job is shown
\* as downloading, converting or download_complete.
HandleCancelDownload(downloadId) ==
  /\ Has(activeDownloads, downloadId)
  /\ Get(activeDownloads, downloadId).status \in CancellableStatuses
  /\ inputs < MaxInputs
  /\ inputs' = inputs + 1
  /\ cancelledDownloads' = MarkCancelled(downloadId)
  /\ cancelCalls' = cancelCalls (+) SetToBag({downloadId})
  /\ UNCHANGED <<configVars, batchVars, registryVars, engineVars, cancelAlls,
                 dispatches, lastToast, cancelSucceeded>>
  /\ OtherStep

\* handleCancelDownload when invoke('cancel_download') returns.
CancelDownloadOk(downloadId) ==
  /\ BagIn(downloadId, cancelCalls)
  /\ cancelCalls' = cancelCalls (-) SetToBag({downloadId})
  /\ RemoveDownload(downloadId)
  /\ ShowToast("Download cancelled", "info")
  /\ UNCHANGED <<configVars, batchVars, engineVars, cancelledDownloads, cancelAlls,
                 dispatches, inputs>>
  /\ cancelSucceeded' = cancelSucceeded \cup {downloadId}
  /\ OtherStep

\* The tombstones after the catch block of handleCancelDownload.
CancelFailed(downloadId) == cancelledDownloads \ {downloadId}

\* handleCancelDownload when invoke('cancel_download') throws error.
CancelDownloadError(downloadId, error) ==
  /\ BagIn(downloadId, cancelCalls)
  /\ cancelCalls' = cancelCalls (-) SetToBag({downloadId})
  /\ cancelledDownloads' = CancelFailed(downloadId)
  /\ ShowToast("Failed to cancel download: " \o error, "error")
  /\ UNCHANGED <<configVars, batchVars, registryVars, engineVars, cancelAlls,
                 dispatches, inputs, cancelSucceeded>>
  /\ OtherStep

\* A handleCancelDownloads that marks an ID only when it issues its call: at
\* the first call only the first ID is marked.
MarkFirstCancelled(downloads) ==
  IF downloads = <<>> THEN cancelledDownloads
  ELSE cancelledDownloads \cup {downloads[1]}

\* A handleCancelDownloads that marks nothing.
MarkNoneCancelled(downloads) == cancelledDownloads

\* The tombstones after handleCancelDownloads marks the IDs of downloads.
MarkAllCancelled(downloads) == cancelledDownloads \cup Range(downloads)

\* The end of handleCancelDownloads: the registry is cleared.
FinishCancelAll ==
  /\ activeDownloads' = <<>>
  /\ UpdateDownloadsList(activeDownloads', timers)
  /\ ShowToast("All downloads cancelled", "info")

\* handleCancelDownloads up to its first await: the tracked IDs are read and
\* marked, and the first cancel call is issued. A run is [downloads, issued,
\* failed]: the IDs read, the IDs whose cancel call was issued (the last one is
\* the call awaited), and the IDs whose call threw.
HandleCancelDownloads ==
  LET downloads == Keys(activeDownloads) IN
  /\ inputs < MaxInputs
  /\ inputs' = inputs + 1
  /\ cancelledDownloads' = MarkAllCancelled(downloads)
  /\ IF downloads = <<>>
       THEN /\ FinishCancelAll
            /\ UNCHANGED cancelAlls
       ELSE /\ cancelAlls' = Append(cancelAlls,
                 [downloads |-> downloads, issued |-> <<downloads[1]>>, failed |-> {}])
            /\ UNCHANGED <<registryVars, lastToast>>
  /\ UNCHANGED <<configVars, batchVars, engineVars, cancelCalls, dispatches, cancelSucceeded,
                 terminated>>
  /\ onlyEventsSinceCancelAll' = (Keys(activeDownloads) = <<>>)

RemoveAt(s, k) == [i \in 1..(Len(s) - 1) |-> IF i < k THEN s[i] ELSE s[i + 1]]

\* A cancel loop that calls again for the same ID when the call threw.
RetryCancelCall(run, ok) ==
  IF ok
    THEN [run EXCEPT !.issued = Append(@, run.downloads[Len(run.issued) + 1])]
    ELSE [run EXCEPT !.issued = Append(@, run.issued[Len(run.issued)]),
                     !.failed = @ \cup {run.issued[Len(run.issued)]}]

\* The run after its awaited call returned (ok) or threw, when it has further
\* IDs: the next call is issued.
NextCancelCall(run, ok) ==
  [run EXCEPT
     !.issued = Append(@, run.downloads[Len(run.issued) + 1]),
     !.failed = IF ok THEN @ ELSE @ \cup {run.issued[Len(run.issued)]}]

\* handleCancelDownloads when the cancel call that run k awaits returns (ok) or
\* throws: the loop goes on with the next ID, or the run ends.
CancelAllReturn(k, ok) ==
  /\ k \in DOMAIN cancelAlls
  /\ LET run == cancelAlls[k] IN
     IF Len(run.issued) < Len(run.downloads)
       THEN /\ cancelAlls' = [cancelAlls EXCEPT ![k] = NextCancelCall(run, ok)]
            /\ UNCHANGED <<registryVars, lastToast>>
       ELSE /\ cancelAlls' = RemoveAt(cancelAlls, k)
            /\ FinishCancelAll
  /\ UNCHANGED <<configVars, batchVars, engineVars, cancelledDownloads, cancelCalls,
                 dispatches, inputs, cancelSucceeded, terminated>>
  /\ onlyEventsSinceCancelAll' = (Len(cancelAlls') < Len(cancelAlls))

\* -------------------------------------------------------------- dispatcher

\* A filter that keeps every video, selected or not.
SelectedAll(videos, selected) == videos

\* videos.filter((_, index) => state.selectedVideos.has(index))
SelectedOf(videos, selected) ==
  LET F[i \in 0..Len(videos)] ==
        IF i = 0 THEN <<>>
        ELSE IF (i - 1) \in selected THEN Append(F[i - 1], videos[i]) ELSE F[i - 1]
  IN F[Len(videos)]

\* The job that startSingleVideoDownload hands to addDownloadToUI.
StartedDownload(downloadId, title, url, downloadType) ==
  [id |-> downloadId, title |-> title, url |-> url, progress |-> 0,
   status |-> "starting", downloadType |-> downloadType, converting |-> NoBool]

\* An addDownloadToUI that does not store the job.
AddNothing(m, download) == m

\* addDownloadToUI's change of the registry.
AddDownload(m, download) == MapSet(m, download)

\* startSingleVideoDownload when the start call at place k of startLog, which
\* the engine accepted, returns the job ID.
StartSingleReturn(k) ==
  /\ k \in startPending
  /\ startLog[k].by = 0
  /\ startLog[k].res # NoJob
  /\ startPending' = startPending \ {k}
  /\ activeDownloads' =
       AddDownload(activeDownloads,
         StartedDownload(startLog[k].res, startLog[k].title, startLog[k].url,
                         startLog[k].downloadType))
  /\ UpdateDownloadsList(activeDownloads', timers)
  /\ IF currentMetadata # NoMetadata /\ Len(currentMetadata.videos) = 1
       THEN ShowToast("Started downloading: " \o startLog[k].title, "info")
       ELSE UNCHANGED lastToast
  /\ UNCHANGED <<configVars, batchVars, startLog, cancelVars, dispatches, inputs, cancelSucceeded>>
  /\ OtherStep

\* startSingleVideoDownload when the start call at place k of startLog, which
\* the engine rejected, throws error.
StartSingleError(k, error) ==
  /\ k \in startPending
  /\ startLog[k].by = 0
  /\ startLog[k].res = NoJob
  /\ startPending' = startPending \ {k}
  /\ ShowToast("Failed to start download: " \o error, "error")
  /\ UNCHANGED <<configVars, batchVars, registryVars, startLog, cancelVars, dispatches,
                 inputs, cancelSucceeded>>
  /\ OtherStep

\* The pc of a worker (one processNextBatch call) of a playlist dispatch.
AtInvoke(k) == [at |-> "invoke", call |-> k]
AtSleep == [at |-> "sleep", call |-> 0]
AtDone == [at |-> "done", call |-> 0]

\* A loop condition that reads the slider's setting at every pass.
MayTakeLive(run) == run.index < Len(run.videos) /\ run.active < concurrentDownloads

\* The loop condition of processNextBatch.
MayTake(run) == run.index < Len(run.videos) /\ run.active < run.concurrent

\* A processNextBatch that filters the selected videos anew at every pass.
WorkerStepLive(st, d, w, ok) ==
  LET live == IF currentMetadata = NoMetadata THEN <<>>
              ELSE SelectedOf(currentMetadata.videos, selectedVideos)
  IN IF MayTake(st.run) /\ st.run.index < Len(live)
       THEN [run |-> [st.run EXCEPT !.index = @ + 1, !.active = @ + 1,
                                    !.pc[w] = AtInvoke(Len(st.log) + 1)],
             log |-> Append(st.log,
                       StartCall(st.log, d, st.run.index + 1,
                                 live[st.run.index + 1],
                                 live[st.run.index + 1].url,
                                 st.run.downloadType, st.run.outputPath, ok)),
             pending |-> st.pending \cup {Len(st.log) + 1}]
       ELSE [st EXCEPT !.run.pc[w] = AtDone]

\* A processNextBatch that takes the videos from the end of the list.
WorkerStepFromEnd(st, d, w, ok) ==
  IF MayTake(st.run)
    THEN [run |-> [st.run EXCEPT !.index = @ + 1, !.active = @ + 1,
                                 !.pc[w] = AtInvoke(Len(st.log) + 1)],
          log |-> Append(st.log,
                    StartCall(st.log, d, Len(st.run.videos) - st.run.index,
                              st.run.videos[Len(st.run.videos) - st.run.index],
                              st.run.videos[Len(st.run.videos) - st.run.index].url,
                              st.run.downloadType, st.run.outputPath, ok)),
          pending |-> st.pending \cup {Len(st.log) + 1}]
    ELSE [st EXCEPT !.run.pc[w] = AtDone]

\* One pass of worker w of dispatch d through the head of processNextBatch's
\* loop, on st = [run, log, pending]: it takes the next video and issues its
\* start call (answered ok or not by the engine), or leaves the loop.
WorkerStep(st, d, w, ok) ==
  IF MayTake(st.run)
    THEN [run |-> [st.run EXCEPT !.index = @ + 1, !.active = @ + 1,
                                 !.pc[w] = AtInvoke(Len(st.log) + 1)],
          log |-> Append(st.log,
                    StartCall(st.log, d, st.run.index + 1,
                              st.run.videos[st.run.index + 1],
                              st.run.videos[st.run.index + 1].url,
                              st.run.downloadType, st.run.outputPath, ok)),
          pending |-> st.pending \cup {Len(st.log) + 1}]
    ELSE [st EXCEPT !.run.pc[w] = AtDone]

\* A startPlaylistDownload that creates one worker per video.
WorkerPerVideo(concurrent, videos) == Len(videos)

\* The number of workers that startPlaylistDownload creates.
WorkerCount(concurrent, videos) ==
  IF concurrent < Len(videos) THEN concurrent ELSE Len(videos)

\* The for loop of startPlaylistDownload: each worker runs to its first await.
RECURSIVE Launch(_, _, _, _)
Launch(st, d, w, oks) ==
  IF w > Len(st.run.pc) THEN st
  ELSE Launch(WorkerStep(st, d, w, oks[w]), d, w + 1, oks)

\* startPlaylistDownload's state before its for loop: its arguments and its
\* local variables.
NewRun(videos, concurrent, downloadType, path) ==
  [videos |-> videos, concurrent |-> concurrent, downloadType |-> downloadType,
   outputPath |-> path, downloaded |-> 0, active |-> 0,
   index |-> 0, pc |-> [w \in 1..WorkerCount(concurrent, videos) |-> AtSleep],
   done |-> FALSE]

\* The function handleDownloadAll, with startSingleVideoDownload or
\* startPlaylistDownload up to the first await. oks are the engine's answers
\* to the start calls issued.
DownloadAll(oks) ==
  /\ IF currentMetadata = NoMetadata \/ ~ytdlpInstalled
       THEN /\ ShowToast("Cannot start download", "error")
            /\ UNCHANGED <<engineVars, dispatches, inputs>>
       ELSE LET selected == SelectedOf(currentMetadata.videos, selectedVideos) IN
         IF Len(selected) = 0
           THEN /\ ShowToast("No videos selected for download", "error")
                /\ UNCHANGED <<engineVars, dispatches, inputs>>
         ELSE IF Len(selected) = 1
           THEN /\ inputs < MaxInputs
                /\ inputs' = inputs + 1
                /\ startLog' = Append(startLog,
                     StartCall(startLog, 0, 1, selected[1], currentUrl, selectedFormat,
                               outputPath, oks[1]))
                /\ startPending' = startPending \cup {Len(startLog) + 1}
                /\ UNCHANGED <<dispatches, lastToast>>
           ELSE /\ Cardinality(BatchCalls) + Len(selected) <= MaxBatchStarts
                /\ LET d == Len(dispatches) + 1
                       st == Launch([run |-> NewRun(selected, concurrentDownloads,
                                                   selectedFormat, outputPath),
                                     log |-> startLog, pending |-> startPending],
                                    d, 1, oks)
                   IN /\ dispatches' = Append(dispatches, st.run)
                      /\ startLog' = st.log
                      /\ startPending' = st.pending
                /\ ShowToast("Starting " \o ToString(Len(selected)) \o " videos (max "
                               \o ToString(concurrentDownloads) \o " concurrent)", "info")
                /\ UNCHANGED inputs
  /\ UNCHANGED <<configVars, batchVars, registryVars, cancelVars, cancelSucceeded>>
  /\ OtherStep

\* A click on the Download button, whose listener is handleDownloadAll: a
\* disabled button takes no click.
HandleDownloadAll(oks) ==
  /\ ~downloadAllBtnDisabled
  /\ DownloadAll(oks)

\* A processNextBatch without the catch in its loop: a start call that throws
\* ends the worker.
BatchStartReturnHalting(d, w) ==
  /\ d \in DOMAIN dispatches
  /\ w \in DOMAIN dispatches[d].pc
  /\ dispatches[d].pc[w].at = "invoke"
  /\ LET k == dispatches[d].pc[w].call IN
       /\ startPending' = startPending \ {k}
       /\ dispatches' = [dispatches EXCEPT
            ![d].downloaded = IF startLog[k].res # NoJob THEN @ + 1 ELSE @,
            ![d].active = @ - 1,
            ![d].pc[w] = IF startLog[k].res # NoJob THEN AtSleep ELSE AtDone]
  /\ UNCHANGED <<configVars, batchVars, registryVars, startLog, cancelVars, lastToast, inputs, cancelSucceeded>>
  /\ OtherStep

\* The toast of startPlaylistDownload after Promise.all.
BatchDoneToast(run) ==
  [msg |-> "All " \o ToString(Len(run.videos)) \o " selected downloads initiated!",
   type |-> "success"]

\* A startPlaylistDownload that goes on when the first worker has returned.
AnyDone(run) == \E w \in DOMAIN run.pc : run.pc[w].at = "done"

\* await Promise.all(promises): every worker has returned.
AllDone(run) == \A w \in DOMAIN run.pc : run.pc[w].at = "done"

\* A processNextBatch without the delay in its finally block: the worker goes
\* on with its loop as soon as its start call has returned.
BatchStartReturnUnpaced(d, w) ==
  /\ d \in DOMAIN dispatches
  /\ w \in DOMAIN dispatches[d].pc
  /\ dispatches[d].pc[w].at = "invoke"
  /\ LET k == dispatches[d].pc[w].call
         run == [dispatches[d] EXCEPT
                   !.downloaded = IF startLog[k].res # NoJob THEN @ + 1 ELSE @,
                   !.active = @ - 1]
         st == WorkerStep([run |-> run, log |-> startLog,
                           pending |-> startPending \ {k}], d, w, TRUE)
     IN /\ startLog' = st.log
        /\ startPending' = st.pending
        /\ IF AllDone(st.run)
             THEN /\ dispatches' = [dispatches EXCEPT ![d] = [st.run EXCEPT !.done = TRUE]]
                  /\ ShowToast(BatchDoneToast(st.run).msg, BatchDoneToast(st.run).type)
             ELSE /\ dispatches' = [dispatches EXCEPT ![d] = st.run]
                  /\ UNCHANGED lastToast
  /\ UNCHANGED <<configVars, batchVars, registryVars, cancelVars, inputs, cancelSucceeded>>
  /\ OtherStep

\* processNextBatch of worker w of dispatch d when its start call returns: the
\* finally block runs and the worker starts its pacing delay.
BatchStartReturn(d, w) ==
  /\ d \in DOMAIN dispatches
  /\ w \in DOMAIN dispatches[d].pc
  /\ dispatches[d].pc[w].at = "invoke"
  /\ LET k == dispatches[d].pc[w].call IN
       /\ startPending' = startPending \ {k}
       /\ dispatches' = [dispatches EXCEPT
            ![d].downloaded = IF startLog[k].res # NoJob THEN @ + 1 ELSE @,
            ![d].active = @ - 1,
            ![d].pc[w] = AtSleep]
  /\ UNCHANGED <<configVars, batchVars, registryVars, startLog, cancelVars, lastToast, inputs, cancelSucceeded>>
  /\ OtherStep

\* processNextBatch of worker w of dispatch d when its pacing delay has
\* elapsed: the loop goes on; when the last worker leaves the loop, Promise.all
\* resolves and startPlaylistDownload reports.
PacingTimer(d, w, ok) ==
  /\ d \in DOMAIN dispatches
  /\ w \in DOMAIN dispatches[d].pc
  /\ dispatches[d].pc[w].at = "sleep"
  /\ LET st == WorkerStep([run |-> dispatches[d], log |-> startLog,
                           pending |-> startPending], d, w, ok)
     IN /\ startLog' = st.log
        /\ startPending' = st.pending
        /\ IF AllDone(st.run)
             THEN /\ dispatches' = [dispatches EXCEPT ![d] = [st.run EXCEPT !.done = TRUE]]
                  /\ ShowToast(BatchDoneToast(st.run).msg, BatchDoneToast(st.run).type)
             ELSE /\ dispatches' = [dispatches EXCEPT ![d] = st.run]
                  /\ UNCHANGED lastToast
  /\ UNCHANGED <<configVars, batchVars, registryVars, cancelVars, inputs, cancelSucceeded>>
  /\ OtherStep

\* ---------------------------------------------------------- specifications

\* What the events of the model carry.
EventStatuses == {"downloading", "completed", "cancelled"}
EventProgress == {50}
EventTitles == {Undefined}
EventTypes == {Undefined}
EventConverting == {NoBool}

ProgressEvents ==
  \E id \in EngineJobs, progress \in EventProgress, status \in EventStatuses,
     title \in EventTitles, downloadType \in EventTypes,
     converting \in EventConverting :
    DownloadProgressEvent(id, progress, status, title, downloadType, converting)

Answers == [1..MaxVideos -> BOOLEAN]
\* The answers where one video is fetched: a single start call is issued, and
\* the answers to further calls are not read.
SingleAnswers == {[i \in 1..MaxVideos |-> ok] : ok \in BOOLEAN}

\* The state after the set-up that every dispatch needs: yt-dlp was found, the
\* download folder was loaded, url was typed and fetched, and the n videos
\* found are all selected (SpecSetup reaches these states from Init).
ReadyWith(url, n, concurrent) ==
  /\ ytdlpInstalled = TRUE
  /\ statusChecked = TRUE
  /\ currentUrl = url
  /\ currentMetadata = Metadata(url, n)
  /\ selectedVideos = Indices(currentMetadata)
  /\ concurrentDownloads = concurrent
  /\ selectedFormat = "video"
  /\ outputPath = DefaultPath
  /\ pathLoaded = TRUE
  /\ updateYtdlpBtnDisabled = FALSE
  /\ folderDialogs = 0
  /\ downloadAllBtnDisabled = (n = 0)
  /\ activeDownloads = <<>>
  /\ downloadCounter = 0
  /\ downloadsList = <<>>
  /\ cancelledDownloads = {}
  /\ timers = EmptyBag
  /\ fetchBtnDisabled = FALSE
  /\ fetchCalls = EmptyBag
  /\ startLog = <<>>
  /\ startPending = {}
  /\ cancelCalls = EmptyBag
  /\ cancelAlls = <<>>
  /\ dispatches = <<>>
  /\ lastToast = FoundToast(n)
  /\ inputs = 0
  /\ cancelSucceeded = {}
  /\ terminated = {}
  /\ onlyEventsSinceCancelAll = FALSE

\* The same with the slider at its initial value.
Ready(url, n) == ReadyWith(url, n, 1)

\* Set-up of a batch: the status check, the download folder, the URL field,
\* fetches, the selection, and the slider, moved to its lowest and to its
\* highest value.
NextSetup ==
  \/ \E installed \in BOOLEAN : CheckYtdlpStatusReturn(installed)
  \/ \E error \in ErrorTexts : CheckYtdlpStatusError(error)
  \/ LoadDownloadPathReturn(DefaultPath)
  \/ LoadDownloadPathError
  \/ \E value \in UrlValues : HandleUrlInput(value)
  \/ HandleFetchMetadata
  \/ \E url \in DOMAIN fetchCalls, n \in 1..MaxVideos : FetchReturnOk(url, n)
  \/ \E url \in DOMAIN fetchCalls, error \in FetchErrors : FetchReturnError(url, error)
  \/ \E index \in Indices(currentMetadata) : ToggleVideo(index)
  \/ HandleSelectAllToggle
  \/ \E value \in {1, MaxConcurrent} : HandleConcurrentChange(value)

SpecSetup == Init /\ [][NextSetup]_vars

\* Reconciliation and cancellation: a single video was fetched; the user starts
\* it (again and again), the engine reports, evictions fire, and the user
\* cancels jobs one by one or all at once; at most MaxCancelTimers eviction
\* timers are pending at once.
NextCancel ==
  \/ \E oks \in SingleAnswers : HandleDownloadAll(oks)
  \/ \E k \in startPending :
       StartSingleReturn(k) /\ BagCardinality(timers') <= MaxCancelTimers
  \/ \E k \in startPending, error \in ErrorTexts : StartSingleError(k, error)
  \/ ProgressEvents /\ BagCardinality(timers') <= MaxCancelTimers
  \/ \E id \in DOMAIN timers :
       EvictionTimer(id) /\ BagCardinality(timers') <= MaxCancelTimers
  \/ \E id \in KeySet(activeDownloads) : HandleCancelDownload(id)
  \/ \E id \in DOMAIN cancelCalls :
       CancelDownloadOk(id) /\ BagCardinality(timers') <= MaxCancelTimers
  \/ \E id \in DOMAIN cancelCalls, error \in ErrorTexts : CancelDownloadError(id, error)
  \/ HandleCancelDownloads /\ BagCardinality(timers') <= MaxCancelTimers
  \/ \E k \in DOMAIN cancelAlls, ok \in BOOLEAN :
       CancelAllReturn(k, ok) /\ BagCardinality(timers') <= MaxCancelTimers

InitCancel == Ready(SingleUrl, 1)

SpecCancel == InitCancel /\ [][NextCancel]_vars

\* Playlist dispatch: a collection of 2..MaxVideos videos was fetched, all are
\* selected; the user moves the slider and clicks Download, and the engine
\* answers the start calls.
NextDispatch ==
  \/ \E value \in 1..MaxConcurrent : HandleConcurrentChange(value)
  \/ \E oks \in Answers : HandleDownloadAll(oks)
  \/ \E d \in DOMAIN dispatches : \E w \in DOMAIN dispatches[d].pc : BatchStartReturn(d, w)
  \/ \E d \in DOMAIN dispatches : \E w \in DOMAIN dispatches[d].pc, ok \in BOOLEAN :
       PacingTimer(d, w, ok)

InitDispatch == \E n \in 2..MaxVideos : Ready(ListUrl, n)

SpecDispatch == InitDispatch /\ [][NextDispatch]_vars

\* One playlist dispatch after another, the slider set before: the user clicks
\* Download and the engine answers the start calls.
NextBatch ==
  \/ \E oks \in Answers : HandleDownloadAll(oks)
  \/ \E d \in DOMAIN dispatches : \E w \in DOMAIN dispatches[d].pc : BatchStartReturn(d, w)
  \/ \E d \in DOMAIN dispatches : \E w \in DOMAIN dispatches[d].pc, ok \in BOOLEAN :
       PacingTimer(d, w, ok)

InitBatch ==
  \E n \in 2..MaxVideos, concurrent \in 1..MaxConcurrent :
    ReadyWith(ListUrl, n, concurrent)

\* Every start call returns and every pacing delay elapses.
FairBatch ==
  \A d \in 1..MaxBatchStarts, w \in 1..MaxConcurrent :
    /\ WF_vars(BatchStartReturn(d, w))
    /\ WF_vars(\E ok \in BOOLEAN : PacingTimer(d, w, ok))

SpecBatchFair == InitBatch /\ [][NextBatch]_vars /\ FairBatch

\* Playlist dispatch of MaxVideos videos with budget 1, while the engine reports
\* on the jobs and evictions fire.
NextJobs ==
  \/ \E oks \in Answers : HandleDownloadAll(oks)
  \/ \E d \in DOMAIN dispatches : \E w \in DOMAIN dispatches[d].pc : BatchStartReturn(d, w)
  \/ \E d \in DOMAIN dispatches : \E w \in DOMAIN dispatches[d].pc, ok \in BOOLEAN :
       PacingTimer(d, w, ok)
  \/ ProgressEvents
  \/ \E id \in DOMAIN timers : EvictionTimer(id)

InitJobs == Ready(ListUrl, MaxVideos)

SpecJobs == InitJobs /\ [][NextJobs]_vars

\* Format, selection and dispatch of at most one video: a collection of
\* 1..MaxVideos videos was fetched; the user picks the format, ticks and
\* unticks videos, clicks Download with one video ticked (MaxSelectInputs start
\* calls at most), and the engine answers the start calls.
NextSelect ==
  \/ \E format \in Formats : HandleFormatSelection(format)
  \/ \E index \in Indices(currentMetadata) : ToggleVideo(index)
  \/ HandleSelectAllToggle
  \/ \E oks \in Answers :
       HandleDownloadAll(oks) /\ inputs' <= MaxSelectInputs /\ dispatches' = dispatches
  \/ \E k \in startPending : StartSingleReturn(k)
  \/ \E k \in startPending, error \in ErrorTexts : StartSingleError(k, error)

InitSelect == \E n \in 1..MaxVideos : Ready(ListUrl, n)

SpecSelect == InitSelect /\ [][NextSelect]_vars

\* Settings and the start of one video: a collection of one video was
\* fetched; the user picks the format and the folder, updates yt-dlp and clicks
\* Download (MaxSelectInputs start calls at most), and the engine answers the
\* start calls.
NextSettings ==
  \/ \E format \in Formats : HandleFormatSelection(format)
  \/ HandleChangePath
  \/ \E selected \in {ChosenPath, NoPath} : ChangePathReturn(selected)
  \/ ChangePathError
  \/ HandleUpdateYtdlp
  \/ \E result \in UpdateResults : UpdateYtdlpReturn(result)
  \/ \E error \in ErrorTexts : UpdateYtdlpError(error)
  \/ \E oks \in Answers : HandleDownloadAll(oks) /\ inputs' <= MaxSelectInputs
  \/ \E k \in startPending : StartSingleReturn(k)
  \/ \E k \in startPending, error \in ErrorTexts : StartSingleError(k, error)

InitSettings == Ready(ListUrl, 1)

SpecSettings == InitSettings /\ [][NextSettings]_vars

\* The reconciler: a single video was fetched; the user starts it, the engine
\* reports with events that carry or omit the title and the converting flag and
\* whose progress goes up and down, evictions fire, and the user cancels all.
ReconcileStatuses == {"downloading", "completed", "cancelled"}
ReconcileProgress == {20, 50}
ReconcileTitles == {Undefined, "", "Renamed"}
ReconcileTypes == {Undefined}
ReconcileConverting == {NoBool, Bool(TRUE), Bool(FALSE)}

\* A step that delivers one of these events, of job id with the given status.
ReconcileEventOf(id, status) ==
  \E progress \in ReconcileProgress, title \in ReconcileTitles,
     downloadType \in ReconcileTypes, converting \in ReconcileConverting :
    DownloadProgressEvent(id, progress, status, title, downloadType, converting)

NextReconcile ==
  \/ \E oks \in SingleAnswers : HandleDownloadAll(oks) /\ inputs' <= MaxReconcileInputs
  \/ \E k \in startPending : StartSingleReturn(k)
  \/ \E k \in startPending, error \in ErrorTexts : StartSingleError(k, error)
  \/ \E id \in EngineJobs, status \in ReconcileStatuses :
       ReconcileEventOf(id, status) /\ inputs' <= MaxReconcileInputs
  \/ \E id \in DOMAIN timers : EvictionTimer(id)
  \/ HandleCancelDownloads /\ inputs' <= MaxReconcileInputs
  \/ \E k \in DOMAIN cancelAlls, ok \in BOOLEAN : CancelAllReturn(k, ok)

InitReconcile == Ready(SingleUrl, 1)

SpecReconcile == InitReconcile /\ [][NextReconcile]_vars

\* The same, where every pending eviction timer fires: setTimeout runs its
\* callback once the delay is over.
ReconcileJobIds == 1..MaxReconcileInputs
FairReconcile == \A id \in ReconcileJobIds : WF_vars(EvictionTimer(id))
SpecReconcileFair == SpecReconcile /\ FairReconcile

\* Cancellation during a playlist dispatch: a collection of two videos was
\* fetched, both are selected and the slider is at 1; the user clicks Download, the engine answers
\* the start calls and reports on the jobs, and the user cancels jobs one by
\* one or all at once.
NextOverlap ==
  \/ \E oks \in Answers : HandleDownloadAll(oks) /\ dispatches = <<>>
  \/ \E d \in DOMAIN dispatches : \E w \in DOMAIN dispatches[d].pc : BatchStartReturn(d, w)
  \/ \E d \in DOMAIN dispatches : \E w \in DOMAIN dispatches[d].pc, ok \in BOOLEAN :
       PacingTimer(d, w, ok)
  \/ ProgressEvents /\ inputs' <= MaxOverlapInputs
  \/ \E id \in DOMAIN timers : EvictionTimer(id)
  \/ \E id \in KeySet(activeDownloads) :
       HandleCancelDownload(id) /\ inputs' <= MaxOverlapInputs
  \/ \E id \in DOMAIN cancelCalls : CancelDownloadOk(id)
  \/ \E id \in DOMAIN cancelCalls, error \in ErrorTexts : CancelDownloadError(id, error)
  \/ HandleCancelDownloads /\ inputs' <= MaxOverlapInputs
  \/ \E k \in DOMAIN cancelAlls, ok \in BOOLEAN : CancelAllReturn(k, ok)

InitOverlap == Ready(ListUrl, 2)

SpecOverlap == InitOverlap /\ [][NextOverlap]_vars

\* Eviction: a single video was fetched; the user starts it (again and again),
\* the engine reports on the jobs in any order, and the eviction timers fire.
NextEvict ==
  \/ \E oks \in SingleAnswers : HandleDownloadAll(oks) /\ inputs' <= MaxEvictInputs
  \/ \E k \in startPending : StartSingleReturn(k)
  \/ \E k \in startPending, error \in ErrorTexts : StartSingleError(k, error)
  \/ ProgressEvents /\ inputs' <= MaxEvictInputs
  \/ \E id \in DOMAIN timers : EvictionTimer(id)

InitEvict == Ready(SingleUrl, 1)

SpecEvict == InitEvict /\ [][NextEvict]_vars

\* Selection and fetches during a playlist dispatch: a collection of MaxVideos
\* videos was fetched and all are selected; the user clicks Download once with
\* several videos selected, and ticks and unticks videos, selects and
\* deselects all and fetches again before and while the dispatch runs.
NextFrozen ==
  \/ \E index \in Indices(currentMetadata) : ToggleVideo(index)
  \/ HandleSelectAllToggle
  \/ HandleFetchMetadata
  \/ \E url \in DOMAIN fetchCalls, n \in 1..MaxVideos : FetchReturnOk(url, n)
  \/ \E oks \in Answers :
       HandleDownloadAll(oks) /\ dispatches = <<>> /\ Len(dispatches') = 1
  \/ \E d \in DOMAIN dispatches : \E w \in DOMAIN dispatches[d].pc : BatchStartReturn(d, w)
  \/ \E d \in DOMAIN dispatches : \E w \in DOMAIN dispatches[d].pc, ok \in BOOLEAN :
       PacingTimer(d, w, ok)

InitFrozen == Ready(ListUrl, MaxVideos)

SpecFrozen == InitFrozen /\ [][NextFrozen]_vars

\* The messages of the error events of the model.
ErrorMessages ==
  {"Sign In To Confirm", "BOT", "robot", "Sign in", "HTTP 403", "ÉCHEC: BÖT", ""}

\* Error events: a collection of two videos was fetched; the user ticks and
\* unticks videos, starts a single one, the engine reports on the jobs and
\* sends error events, and the user cancels all.
NextErrors ==
  \/ \E index \in Indices(currentMetadata) : ToggleVideo(index)
  \/ \E oks \in Answers :
       HandleDownloadAll(oks) /\ inputs' <= MaxErrorInputs /\ dispatches' = dispatches
  \/ \E k \in startPending : StartSingleReturn(k)
  \/ \E k \in startPending, error \in ErrorTexts : StartSingleError(k, error)
  \/ ProgressEvents /\ inputs' <= MaxErrorInputs
  \/ \E id \in DOMAIN timers : EvictionTimer(id)
  \/ HandleCancelDownloads /\ inputs' <= MaxErrorInputs
  \/ \E k \in DOMAIN cancelAlls, ok \in BOOLEAN : CancelAllReturn(k, ok)
  \/ \E error \in ErrorMessages : DownloadErrorEvent(error)

InitErrors == Ready(ListUrl, 2)

SpecErrors == InitErrors /\ [][NextErrors]_vars

\* ------------------------------------------------------------------ claims

\* A step that delivers a progress event of job id with the given status.
EventOf(id, status) ==
  \E progress \in EventProgress, title \in EventTitles, downloadType \in EventTypes,
     converting \in EventConverting :
    DownloadProgressEvent(id, progress, status, title, downloadType, converting)

InFlightCancels == DOMAIN cancelCalls

\* C1: a progress event for a tombstoned ID leaves the registry unchanged
\* whatever status it carries, whether the job is still in the registry or
\* not.
C1_TombstonedEventAnyStatus ==
  [][\A id \in EngineJobs, status \in EventStatuses :
       (id \in cancelledDownloads /\ EventOf(id, status)) =>
         UNCHANGED activeDownloads]_vars

\* C2: handleCancelDownload marks the ID in the step that issues the cancel
\* call, and a progress event (here: with a status other than 'cancelled') for
\* an ID whose cancel call is in flight is not applied to the registry.
C2_EventDuringCancelNotApplied ==
  [][\A id \in EngineJobs :
       /\ HandleCancelDownload(id) => id \in cancelledDownloads'
       /\ \A status \in EventStatuses \ {"cancelled"} :
            (id \in InFlightCancels /\ EventOf(id, status)) =>
              UNCHANGED activeDownloads]_vars

\* C3: once an ID is tombstoned and its job is out of the registry, the job is
\* not in the registry after any further step.
C3_NeverResurrected ==
  [][\A id \in cancelledDownloads :
       ~Has(activeDownloads, id) => ~Has(activeDownloads', id)]_vars

\* C4: every step keeps every tombstone.
C4_TombstonesOnlyGrow ==
  [][cancelledDownloads \subseteq cancelledDownloads']_vars

\* C5: when the cancel call of handleCancelDownload fails, an error is shown,
\* the tombstone of the ID stays and the job is not in the active view.
C5_FailedCancelKeepsTombstone ==
  [][\A id \in InFlightCancels, error \in ErrorTexts :
       CancelDownloadError(id, error) =>
         /\ lastToast'.type = "error"
         /\ id \in cancelledDownloads'
         /\ id \notin ActiveIds(activeDownloads')]_vars

\* C6: the step in which the cancel call for an ID succeeds removes the job,
\* and no progress event (here: with a status other than 'cancelled') for an ID
\* whose cancel call has succeeded changes the registry.
C6_CancelledJobGoneForGood ==
  [][\A id \in EngineJobs :
       /\ CancelDownloadOk(id) => ~Has(activeDownloads', id)
       /\ \A status \in EventStatuses \ {"cancelled"} :
            (id \in cancelSucceeded /\ EventOf(id, status)) =>
              UNCHANGED activeDownloads]_vars

\* C7: after handleCancelDownloads has ended, as long as nothing but progress
\* events is delivered, the active view is empty.
C7_ActiveViewStaysEmpty ==
  onlyEventsSinceCancelAll => ActiveIds(activeDownloads) = {}

\* C8: the step of handleCancelDownloads that reads the tracked IDs puts every
\* one of them into the tombstones, and the first cancel call of the run (the
\* only call that any run issues in that step) is issued with all of them
\* marked.
C8_CancelAllMarksAllFirst ==
  [][HandleCancelDownloads =>
       /\ KeySet(activeDownloads) \subseteq cancelledDownloads'
       /\ \A k \in DOMAIN cancelAlls : cancelAlls'[k] = cancelAlls[k]
       /\ activeDownloads # <<>> =>
            /\ Len(cancelAlls') = Len(cancelAlls) + 1
            /\ LET run == cancelAlls'[Len(cancelAlls')] IN
                 /\ run.downloads = Keys(activeDownloads)
                 /\ run.issued = <<run.downloads[1]>>
                 /\ Range(run.downloads) \subseteq cancelledDownloads']_vars

\* C8's case: a run that awaits its first cancel call, with two tracked IDs
\* that are both marked.
C8_Witness ==
  \E k \in DOMAIN cancelAlls :
    /\ Len(cancelAlls[k].downloads) >= 2
    /\ Len(cancelAlls[k].issued) = 1
    /\ Range(cancelAlls[k].downloads) \subseteq cancelledDownloads

\* C9: a handleCancelDownloads run issues its cancel calls one ID after the
\* other in the order read, whether the call before returned or threw; when it
\* ends, one call was issued for every ID read and the registry is empty. A
\* run that reads no ID issues no call and leaves the registry empty.
C9_CancelAllCallsEachOnce ==
  [][/\ \A k \in DOMAIN cancelAlls, ok \in BOOLEAN :
          CancelAllReturn(k, ok) =>
            LET run == cancelAlls[k] IN
            IF Len(cancelAlls') < Len(cancelAlls)
              THEN /\ run.issued = run.downloads
                   /\ \A i, j \in DOMAIN run.issued :
                        run.issued[i] = run.issued[j] => i = j
                   /\ activeDownloads' = <<>>
              ELSE /\ cancelAlls'[k].downloads = run.downloads
                   /\ cancelAlls'[k].issued =
                        SubSeq(run.downloads, 1, Len(run.issued) + 1)
     /\ (HandleCancelDownloads /\ activeDownloads = <<>>) =>
          (cancelAlls' = cancelAlls /\ activeDownloads' = <<>>)]_vars

\* C9's case: a run over two IDs that has issued its last call after an
\* earlier call threw.
C9_Witness ==
  \E k \in DOMAIN cancelAlls :
    /\ Len(cancelAlls[k].downloads) >= 2
    /\ cancelAlls[k].issued = cancelAlls[k].downloads
    /\ cancelAlls[k].failed # {}

\* The start calls of playlist dispatch d.
CallsOf(d) == {i \in DOMAIN startLog : startLog[i].by = d}

\* C10: a playlist dispatch of K > 1 videos never issues two start calls for
\* one video, each call carries the video's own URL, and when all its workers
\* have left their loops it has issued exactly one start call per video, K in
\* all, whichever calls failed.
C10_OneStartAttemptPerItem ==
  \A d \in DOMAIN dispatches :
    LET run == dispatches[d]
        K == Len(run.videos)
    IN /\ K > 1
       /\ \A i \in CallsOf(d) :
            /\ startLog[i].item \in 1..K
            /\ startLog[i].url = run.videos[startLog[i].item].url
       /\ \A n \in 1..K : Cardinality({i \in CallsOf(d) : startLog[i].item = n}) <= 1
       /\ AllDone(run) =>
            /\ Cardinality(CallsOf(d)) = K
            /\ \A n \in 1..K : \E i \in CallsOf(d) : startLog[i].item = n

\* C10's case: a dispatch of three videos has ended, with start calls that
\* failed and start calls that succeeded.
C10_Witness ==
  \E d \in DOMAIN dispatches :
    /\ dispatches[d].done
    /\ Len(dispatches[d].videos) = 3
    /\ dispatches[d].downloaded > 0
    /\ dispatches[d].downloaded < 3

\* The start calls of playlist dispatch d that have not returned.
OutstandingOf(d) == CallsOf(d) \cap startPending

Min(a, b) == IF a < b THEN a ELSE b

\* C11: a playlist dispatch of K videos with budget N runs min(N, K) workers,
\* and in every state at most N of its start calls are issued and not returned.
C11_OutstandingWithinBudget ==
  \A d \in DOMAIN dispatches :
    LET run == dispatches[d] IN
      /\ Len(run.pc) = Min(run.concurrent, Len(run.videos))
      /\ Cardinality(OutstandingOf(d)) <= run.concurrent
      /\ Cardinality(OutstandingOf(d)) = run.active

\* C11's case: a dispatch of three videos with budget 2 has two start calls
\* outstanding.
C11_Witness ==
  \E d \in DOMAIN dispatches :
    /\ dispatches[d].concurrent = 2
    /\ Len(dispatches[d].videos) = 3
    /\ Cardinality(OutstandingOf(d)) = 2

\* The place of video v among the fetched candidates.
Position(videos, v) == CHOOSE i \in DOMAIN videos : videos[i] = v

\* C12: the videos of a playlist dispatch are the selected candidates in the
\* order of the fetched list, its start calls are issued for the first, the
\* second, ... video in that order without a gap, and with budget 1 a start
\* call is issued only when the one before has returned.
C12_StartCallsInOrder ==
  \A d \in DOMAIN dispatches :
    LET run == dispatches[d]
        K == Len(run.videos)
    IN /\ \A n \in 1..K : \E i \in DOMAIN currentMetadata.videos :
            currentMetadata.videos[i] = run.videos[n]
       /\ \A m, n \in 1..K :
            m < n => Position(currentMetadata.videos, run.videos[m])
                       < Position(currentMetadata.videos, run.videos[n])
       /\ \A i, j \in CallsOf(d) : i < j => startLog[i].item < startLog[j].item
       /\ {startLog[i].item : i \in CallsOf(d)} = 1..Cardinality(CallsOf(d))
       /\ \A i \in CallsOf(d) : startLog[i].url = run.videos[startLog[i].item].url
       /\ run.concurrent = 1 => Cardinality(OutstandingOf(d)) <= 1

\* C12's case: a dispatch of three videos with budget 1 has ended after its
\* three start calls.
C12_Witness ==
  \E d \in DOMAIN dispatches :
    /\ dispatches[d].concurrent = 1
    /\ Len(dispatches[d].videos) = 3
    /\ dispatches[d].done
    /\ Cardinality(CallsOf(d)) = 3

\* C13: when every start call returns and every pacing delay elapses, every
\* playlist dispatch ends with its completion notice; the step that gives the
\* notice finds all K start calls issued and returned, no step changes a
\* dispatch after its notice (so the notice is given once), and no progress
\* event is needed for it.
C13_BatchCompletionNotified ==
  /\ \A d \in 1..MaxBatchStarts :
       (d \in DOMAIN dispatches) ~> (d \in DOMAIN dispatches /\ dispatches[d].done)
  /\ [][\A d \in DOMAIN dispatches' :
          IF d \in DOMAIN dispatches
            THEN /\ dispatches[d].done => dispatches'[d] = dispatches[d]
                 /\ (~dispatches[d].done /\ dispatches'[d].done) =>
                      /\ lastToast' = BatchDoneToast(dispatches[d])
                      /\ Cardinality(CallsOf(d))' = Len(dispatches[d].videos)
                      /\ OutstandingOf(d)' = {}
            ELSE ~dispatches'[d].done]_vars

\* C13's case: a dispatch of three videos with budget 2 has given its notice,
\* and no job has reported its end.
C13_Witness ==
  \E d \in DOMAIN dispatches :
    /\ dispatches[d].done
    /\ dispatches[d].concurrent = 2
    /\ Len(dispatches[d].videos) = 3
    /\ lastToast = BatchDoneToast(dispatches[d])
    /\ OutstandingOf(d) = {}
    /\ dispatches[d].downloaded = 3
    /\ terminated = {}

\* The jobs of playlist dispatch d whose start call has returned an ID and of
\* which no event has reported the end.
RunningOf(d) ==
  {startLog[i].res : i \in CallsOf(d) \ startPending} \ (terminated \cup {NoJob})

\* C14: the jobs of a dispatch that were started and have not ended are never
\* more than the concurrency setting of the dispatch, and the setting is one
\* of 1..5.
C14_RunningJobsWithinSetting ==
  \A d \in DOMAIN dispatches :
    /\ dispatches[d].concurrent \in 1..5
    /\ Cardinality(RunningOf(d)) <= dispatches[d].concurrent

\* C15: in every state in which videos were fetched and none is selected, a
\* call of handleDownloadAll, whatever the engine would answer, runs to its
\* end, issues no start call, begins no playlist dispatch, leaves the
\* registry, the tombstones and the selection as they are, and shows the error
\* 'No videos selected for download'.
C15_EmptySelectionIsNoOp ==
  (currentMetadata # NoMetadata /\ ytdlpInstalled /\ selectedVideos = {}) =>
    \A oks \in Answers :
      /\ ENABLED DownloadAll(oks)
      /\ ~ENABLED (/\ DownloadAll(oks)
                   /\ ~(/\ UNCHANGED <<startLog, startPending, dispatches>>
                        /\ UNCHANGED <<activeDownloads, cancelledDownloads,
                                       selectedVideos>>
                        /\ lastToast' = [msg |-> "No videos selected for download",
                                         type |-> "error"]))

\* C15's case: a video of a list of three was started and its job is in the
\* registry, and then every video was deselected.
C15_Witness ==
  /\ currentMetadata # NoMetadata
  /\ Len(currentMetadata.videos) = 3
  /\ ytdlpInstalled
  /\ selectedVideos = {}
  /\ activeDownloads # <<>>
  /\ lastToast.type = "success"

\* C16: a call of handleDownloadAll with exactly one video selected issues one
\* start call, for that video, and begins no playlist dispatch; when the call
\* returns an ID, the registry has a job of that ID with status starting and
\* progress 0 and its other jobs are as before; when the call throws, the
\* registry is as before and an error is shown.
C16_SingleStart ==
  [][/\ \A oks \in Answers :
          (/\ currentMetadata # NoMetadata
           /\ ytdlpInstalled
           /\ Cardinality(selectedVideos) = 1
           /\ HandleDownloadAll(oks)) =>
            /\ Len(startLog') = Len(startLog) + 1
            /\ SubSeq(startLog', 1, Len(startLog)) = startLog
            /\ \E index \in selectedVideos :
                 startLog'[Len(startLog')].title = currentMetadata.videos[index + 1].title
            /\ UNCHANGED <<dispatches, activeDownloads>>
     /\ \A k \in startPending :
          StartSingleReturn(k) =>
            /\ Has(activeDownloads', startLog[k].res)
            /\ Get(activeDownloads', startLog[k].res).status = "starting"
            /\ Get(activeDownloads', startLog[k].res).progress = 0
            /\ Get(activeDownloads', startLog[k].res).title = startLog[k].title
            /\ MapDelete(activeDownloads', startLog[k].res)
                 = MapDelete(activeDownloads, startLog[k].res)
     /\ \A k \in startPending, error \in ErrorTexts :
          StartSingleError(k, error) =>
            /\ UNCHANGED activeDownloads
            /\ lastToast' = [msg |-> "Failed to start download: " \o error,
                             type |-> "error"]]_vars

\* C16's case: one of three videos is selected, its start call has returned,
\* and the job is in the registry as starting.
C16_Witness ==
  /\ Cardinality(selectedVideos) = 1
  /\ Len(currentMetadata.videos) = 3
  /\ startPending = {}
  /\ \E k \in DOMAIN startLog :
       /\ startLog[k].by = 0
       /\ Has(activeDownloads, startLog[k].res)
       /\ Get(activeDownloads, startLog[k].res).status = "starting"

\* C17: when a start call returns an ID, in startSingleVideoDownload and in
\* startPlaylistDownload alike, the registry has a job of that ID after the
\* step.
C17_StartedJobsTracked ==
  [][/\ \A k \in startPending :
          (StartSingleReturn(k) /\ startLog[k].res # NoJob) =>
            Has(activeDownloads', startLog[k].res)
     /\ \A d \in DOMAIN dispatches : \A w \in DOMAIN dispatches[d].pc :
          (BatchStartReturn(d, w) /\ startLog[dispatches[d].pc[w].call].res # NoJob) =>
            Has(activeDownloads', startLog[dispatches[d].pc[w].call].res)]_vars

\* C18: a progress event with a status other than cancelled, for an ID that is
\* neither in the registry nor tombstoned, shows no error and adds a job of
\* that ID with the status and the progress of the event, with the event's
\* title or "Unknown" when the event has none, and with the event's converting
\* flag or false when the event has none; the other jobs stay as they are.
C18_UnknownIdCreatesJob ==
  [][\A id \in EngineJobs, progress \in ReconcileProgress,
        status \in ReconcileStatuses \ {"cancelled"}, title \in ReconcileTitles,
        downloadType \in ReconcileTypes, converting \in ReconcileConverting :
       (/\ ~Has(activeDownloads, id)
        /\ id \notin cancelledDownloads
        /\ DownloadProgressEvent(id, progress, status, title, downloadType, converting)) =>
         /\ Has(activeDownloads', id)
         /\ Get(activeDownloads', id).status = status
         /\ Get(activeDownloads', id).progress = progress
         /\ Get(activeDownloads', id).title =
              (IF title = Undefined \/ title = "" THEN "Unknown" ELSE title)
         /\ Get(activeDownloads', id).converting =
              (IF converting = NoBool THEN Bool(FALSE) ELSE converting)
         /\ MapDelete(activeDownloads', id) = activeDownloads
         /\ lastToast' = lastToast]_vars

\* C18's case: an event has created the job of a start call that has not
\* returned, with title "Unknown" and converting false.
C18_Witness ==
  \E k \in startPending :
    /\ Has(activeDownloads, startLog[k].res)
    /\ Get(activeDownloads, startLog[k].res).title = "Unknown"
    /\ Get(activeDownloads, startLog[k].res).converting = Bool(FALSE)
    /\ Get(activeDownloads, startLog[k].res).status = "downloading"

\* C19: a progress event with a status other than cancelled, for a job that is
\* in the registry and not tombstoned, stores the status and the progress of
\* the event (a lower progress too), stores the event's title only if it is
\* non-empty and the event's converting flag only if the event has one, and
\* keeps everything else of the registry.
C19_KnownIdMergesFields ==
  [][\A id \in EngineJobs, progress \in ReconcileProgress,
        status \in ReconcileStatuses \ {"cancelled"}, title \in ReconcileTitles,
        downloadType \in ReconcileTypes, converting \in ReconcileConverting :
       (/\ Has(activeDownloads, id)
        /\ id \notin cancelledDownloads
        /\ DownloadProgressEvent(id, progress, status, title, downloadType, converting)) =>
         LET old == Get(activeDownloads, id)
             new == Get(activeDownloads', id)
         IN /\ Has(activeDownloads', id)
            /\ new.status = status
            /\ new.progress = progress
            /\ new.title = (IF title = Undefined \/ title = "" THEN old.title ELSE title)
            /\ new.converting = (IF converting = NoBool THEN old.converting ELSE converting)
            /\ new.downloadType = old.downloadType
            /\ new.url = old.url
            /\ Keys(activeDownloads') = Keys(activeDownloads)
            /\ MapDelete(activeDownloads', id) = MapDelete(activeDownloads, id)]_vars

\* C19's case: a job whose title came with its start call stands at progress
\* 50 with converting true, and an event with progress 20, no title and no
\* converting flag can be delivered.
C19_Witness ==
  \E id \in KeySet(activeDownloads) :
    /\ id \notin cancelledDownloads
    /\ Get(activeDownloads, id).title \in Range(VideoTitles)
    /\ Get(activeDownloads, id).progress = 50
    /\ Get(activeDownloads, id).converting = Bool(TRUE)
    /\ ENABLED DownloadProgressEvent(id, 20, "downloading", Undefined, Undefined, NoBool)

\* C20: a progress event with status cancelled for an ID that is not
\* tombstoned deletes the job of that ID if the registry has it, and leaves
\* every other job, and a registry without the job, as they are.
C20_CancelledEventRemoves ==
  [][\A id \in EngineJobs :
       (id \notin cancelledDownloads /\ ReconcileEventOf(id, "cancelled")) =>
         /\ activeDownloads' = MapDelete(activeDownloads, id)
         /\ ~Has(activeDownloads', id)]_vars

\* C20's case: a job that is not tombstoned is in the registry, the engine
\* has reported the end of another job that is not in the registry, and a
\* cancelled event of either can be delivered.
C20_Witness ==
  \E id \in KeySet(activeDownloads), other \in terminated :
    /\ id \notin cancelledDownloads
    /\ Get(activeDownloads, id).status \in ActiveStatuses
    /\ other \notin cancelledDownloads
    /\ ~Has(activeDownloads, other)
    /\ ENABLED ReconcileEventOf(id, "cancelled")
    /\ ENABLED ReconcileEventOf(other, "cancelled")

\* C21: a job whose stored status is completed or failed keeps that status
\* for as long as it stays in the registry, and is not in the active view
\* after any step.
C21_TerminalStatusIsFinal ==
  [][\A id \in KeySet(activeDownloads) :
       Get(activeDownloads, id).status \in TerminalStatuses =>
         /\ Has(activeDownloads', id) =>
              Get(activeDownloads', id).status = Get(activeDownloads, id).status
         /\ id \notin ActiveIds(activeDownloads')]_vars

\* The jobs of the registry whose status is one of the four shown ones.
ShownIds ==
  {activeDownloads[i].id : i \in {j \in DOMAIN activeDownloads :
     activeDownloads[j].status \in
       {"starting", "downloading", "converting", "download_complete"}}}

\* timer pending, scheduled by the pass that stored the status, and is
\* eventually out of the registry, whether or not another event arrives.
C23_TerminalJobEvicted ==
  /\ [](\A id \in TerminalIds(activeDownloads) : BagIn(id, timers))
  /\ \A id \in ReconcileJobIds :
       (Has(activeDownloads, id) /\ Get(activeDownloads, id).status \in TerminalStatuses)
         ~> ~Has(activeDownloads, id)

\* C23's case: a completed job waits for its eviction after the last event
\* that is delivered.
C23_Witness ==
  \E id \in KeySet(activeDownloads) :
    /\ Get(activeDownloads, id).status = "completed"
    /\ BagIn(id, timers)
    /\ inputs = MaxReconcileInputs

\* A step of one of the two cancel handlers.
CancelStep ==
  \/ \E id \in KeySet(activeDownloads) : HandleCancelDownload(id)
  \/ \E id \in DOMAIN cancelCalls : CancelDownloadOk(id)
  \/ \E id \in DOMAIN cancelCalls, error \in ErrorTexts : CancelDownloadError(id, error)
  \/ HandleCancelDownloads
  \/ \E k \in DOMAIN cancelAlls, ok \in BOOLEAN : CancelAllReturn(k, ok)

\* C24: while a playlist dispatch runs, Cancel All can be clicked and so can
\* the Cancel button of every job that shows one; the click tombstones the job,
\* or every tracked job, in the same step; no step of a cancel handler changes
\* a dispatch or the start calls; and a dispatch that has ended has issued one
\* start call per video.
C24_CancelIndependentOfDispatch ==
  /\ []((inputs < MaxInputs /\ \E d \in DOMAIN dispatches : ~AllDone(dispatches[d])) =>
          /\ ENABLED HandleCancelDownloads
          /\ \A id \in KeySet(activeDownloads) :
               Get(activeDownloads, id).status \in CancellableStatuses =>
                 ENABLED HandleCancelDownload(id))
  /\ [](\A d \in DOMAIN dispatches :
          AllDone(dispatches[d]) => Cardinality(CallsOf(d)) = Len(dispatches[d].videos))
  /\ [][/\ \A id \in KeySet(activeDownloads) :
            HandleCancelDownload(id) => id \in cancelledDownloads'
        /\ HandleCancelDownloads => KeySet(activeDownloads) \subseteq cancelledDownloads'
        /\ \A id \in DOMAIN cancelCalls : CancelDownloadOk(id) => ~Has(activeDownloads', id)
        /\ CancelStep => UNCHANGED <<dispatches, startLog, startPending>>]_vars

\* C24's case: a dispatch has a start call outstanding and a video left, one
\* of its jobs is tracked, and Cancel All has marked it and awaits its cancel
\* call.
C24_Witness ==
  \E d \in DOMAIN dispatches :
    /\ OutstandingOf(d) # {}
    /\ dispatches[d].index < Len(dispatches[d].videos)
    /\ cancelAlls # <<>>
    /\ \E id \in KeySet(activeDownloads) : id \in cancelledDownloads

\* C25: when a fetch returns n videos, the selection is 0..n-1 and the
\* candidate list has the n videos, whatever the selection and the list were.
C25_FetchSelectsAll ==
  [][\A url \in DOMAIN fetchCalls, n \in 1..MaxVideos :
       FetchReturnOk(url, n) =>
         /\ selectedVideos' = 0..(n - 1)
         /\ Len(currentMetadata'.videos) = n]_vars

\* C25's case: of a list of several videos the last one is selected and
\* another one is not, and a fetch is about to return a single video.
C25_Witness ==
  /\ currentMetadata # NoMetadata
  /\ Len(currentMetadata.videos) > 1
  /\ (Len(currentMetadata.videos) - 1) \in selectedVideos
  /\ Cardinality(selectedVideos) < Len(currentMetadata.videos)
  /\ \E url \in DOMAIN fetchCalls : ENABLED FetchReturnOk(url, 1)

\* C26: in every state every selected index is an index of the current
\* candidate list: there is a list, and the index is at least 0 and less than
\* the number of its videos; so no more videos are selected than there are.
C26_SelectionWithinList ==
  /\ \A index \in selectedVideos :
       /\ currentMetadata # NoMetadata
       /\ index >= 0
       /\ index < Len(currentMetadata.videos)
  /\ currentMetadata # NoMetadata =>
       Cardinality(selectedVideos) <= Len(currentMetadata.videos)
  /\ currentMetadata = NoMetadata => selectedVideos = {}

\* C26's case: after a list of several videos was fetched and its last video
\* selected, a shorter list has been fetched and a video of it deselected,
\* while two more fetches are in flight at once.
C26_Witness ==
  /\ currentMetadata # NoMetadata
  /\ Len(currentMetadata.videos) = 2
  /\ selectedVideos = {1}
  /\ BagCardinality(fetchCalls) = 2
  /\ lastToast = FoundToast(2)

\* C27: a click on the select-all button takes the select-all branch of
\* handleSelectAllToggle when not every video is selected and the
\* deselect-all branch otherwise. The selection that the branch leaves is the
\* selection that the same branch leaves when it is applied to it once more,
\* and after the select-all branch the number of selected videos is the
\* number of videos of the candidate list.
C27_SelectAllIdempotent ==
  [][HandleSelectAllToggle =>
       IF AllSelected(selectedVideos, currentMetadata)
         THEN /\ selectedVideos' = DeselectAll(selectedVideos)
              /\ DeselectAll(selectedVideos') = selectedVideos'
              /\ selectedVideos' = {}
         ELSE /\ selectedVideos' = SelectAll(selectedVideos, currentMetadata)
              /\ SelectAll(selectedVideos', currentMetadata') = selectedVideos'
              /\ currentMetadata # NoMetadata =>
                   /\ Cardinality(selectedVideos') = Len(currentMetadata.videos)
                   /\ selectedVideos' = 0..(Len(currentMetadata.videos) - 1)]_vars

\* C27's case: the last of three candidates is the only one selected and the
\* select-all button can be clicked.
C27_Witness ==
  /\ currentMetadata # NoMetadata
  /\ Len(currentMetadata.videos) = 3
  /\ selectedVideos = {2}
  /\ ENABLED HandleSelectAllToggle

\* C28: a playlist dispatch takes the setting of the slider when it begins:
\* it has min(setting, videos) workers and the setting as its budget. A move of
\* the slider changes no dispatch and no start call; no step changes the
\* budget or the number of workers of a dispatch; after every step the start
\* calls of a dispatch that have not returned are within its budget, and a
\* worker has left its loop only when no video is left.
C28_BudgetReadAtStart ==
  [][/\ \A value \in 1..MaxConcurrent :
          HandleConcurrentChange(value) => UNCHANGED <<dispatches, startLog, startPending>>
     /\ \A d \in DOMAIN dispatches :
          /\ dispatches'[d].concurrent = dispatches[d].concurrent
          /\ Len(dispatches'[d].pc) = Len(dispatches[d].pc)
     /\ \A d \in DOMAIN dispatches' \ DOMAIN dispatches :
          /\ dispatches'[d].concurrent = concurrentDownloads
          /\ Len(dispatches'[d].pc) = Min(concurrentDownloads, Len(dispatches'[d].videos))
     /\ \A d \in DOMAIN dispatches' :
          /\ Cardinality(OutstandingOf(d)') <= dispatches'[d].concurrent
          /\ \A w \in DOMAIN dispatches'[d].pc :
               dispatches'[d].pc[w] = AtDone =>
                 dispatches'[d].index = Len(dispatches'[d].videos)]_vars

\* C28's case: a dispatch that began with the slider at 2 has a start call
\* outstanding and a video left, and the slider is at 1 now.
C28_Witness ==
  \E d \in DOMAIN dispatches :
    /\ dispatches[d].concurrent = 2
    /\ concurrentDownloads = 1
    /\ OutstandingOf(d) # {}
    /\ dispatches[d].index < Len(dispatches[d].videos)

\* C30: when the start call of a worker returns, the worker issues no call in
\* that step and waits for its pacing delay; a worker issues a start call after
\* its first one only in the step in which its own delay elapses; and a worker
\* that waits holds up no other one: the others' calls return and their delays
\* elapse as before, and a worker whose delay elapses while another one waits
\* takes the next video if one is left.
C30_PacingDelaysOwnWorkerOnly ==
  [][\A d \in DOMAIN dispatches : \A w \in DOMAIN dispatches[d].pc :
       /\ BatchStartReturn(d, w) =>
            /\ dispatches'[d].pc[w] = AtSleep
            /\ startLog' = startLog
            /\ \A v \in DOMAIN dispatches[d].pc \ {w} :
                 dispatches'[d].pc[v] = dispatches[d].pc[v]
       /\ (dispatches'[d].pc[w].at = "invoke" /\ dispatches'[d].pc[w] # dispatches[d].pc[w]) =>
            /\ dispatches[d].pc[w] = AtSleep
            /\ \E ok \in BOOLEAN : PacingTimer(d, w, ok)
       /\ dispatches[d].pc[w] = AtSleep =>
            \A v \in DOMAIN dispatches[d].pc \ {w} :
              /\ dispatches[d].pc[v].at = "invoke" => ENABLED BatchStartReturn(d, v)
              /\ dispatches[d].pc[v] = AtSleep => ENABLED PacingTimer(d, v, TRUE)
              /\ \A ok \in BOOLEAN :
                   (PacingTimer(d, v, ok) /\ dispatches[d].index < Len(dispatches[d].videos)) =>
                     dispatches'[d].pc[v].at = "invoke"]_vars

\* C30's case: of two workers one waits for its pacing delay while the start
\* call of the other one is outstanding, and a video is left.
C30_Witness ==
  \E d \in DOMAIN dispatches :
    /\ Len(dispatches[d].pc) = 2
    /\ dispatches[d].pc[1] = AtSleep
    /\ dispatches[d].pc[2].at = "invoke"
    /\ dispatches[d].index < Len(dispatches[d].videos)

\* C29: an error event changes nothing but the notification shown: the
\* registry, the counter, the list, the timers, the tombstones, the selection
\* and all the rest stay as they are; the notification is the bot warning for
\* the messages that hold "bot" or "sign in to confirm" in any case of letters,
\* and the failure notice with the message otherwise.
C29_ErrorEventOnlyNotifies ==
  [][\A error \in ErrorMessages :
       DownloadErrorEvent(error) =>
         /\ UNCHANGED <<activeDownloads, downloadCounter, downloadsList, timers,
                        cancelledDownloads, selectedVideos, currentMetadata,
                        startLog, startPending, cancelAlls, cancelCalls, dispatches>>
         /\ lastToast' =
              IF error \in {"Sign In To Confirm", "BOT", "robot"}
                THEN [msg |-> "YouTube bot detected. Try updating yt-dlp.", type |-> "warning"]
                ELSE [msg |-> "Download failed: " \o error, type |-> "error"]]_vars

\* C29's case: the bot warning is shown while a job is tracked and tombstoned
\* and one of two videos is selected.
C29_Witness ==
  /\ lastToast = [msg |-> "YouTube bot detected. Try updating yt-dlp.", type |-> "warning"]
  /\ activeDownloads # <<>>
  /\ cancelledDownloads # {}
  /\ selectedVideos = {1}

\* C31: an eviction timer that fires for an ID that the registry does not
\* hold leaves the registry, the list of items and the counter as they are,
\* however many timers are pending for the ID.
C31_StaleEvictionChangesNothing ==
  [][\A id \in DOMAIN timers :
       (~Has(activeDownloads, id) /\ EvictionTimer(id)) =>
         UNCHANGED <<activeDownloads, downloadsList, downloadCounter>>]_vars

\* C31's case: the first job was created and completed by its first event, a
\* second start added a job while the first one was completed, so that two
\* timers were pending for the first job; one of them has evicted it (after
\* two clicks and one event nothing else has removed it), and the other one
\* is still to fire, while the second job is shown.
C31_Witness ==
  \E id \in DOMAIN timers, other \in KeySet(activeDownloads) :
    /\ inputs = 3
    /\ BagIn(id, timers)
    /\ ~Has(activeDownloads, id)
    /\ id \in terminated
    /\ other # id
    /\ downloadsList = <<other>>
    /\ ENABLED EvictionTimer(id)

\* C32: after every step the items of the list are those of the jobs in the
\* active view, one each; the items of the jobs that stay in the view are the
\* first ones of the new list, in the order they had (they are kept, not
\* built anew); the items after them are those of the jobs that are new in
\* the view; and no item is left of a job that is no longer in the view.
C32_ListIsDiffedById ==
  [][LET active == ActiveIds(activeDownloads')
         kept == SelectSeq(downloadsList, LAMBDA id : id \in active)
         list == downloadsList'
     IN /\ Range(list) = active
        /\ Len(list) = Cardinality(active)
        /\ SubSeq(list, 1, Len(kept)) = kept
        /\ {list[i] : i \in (Len(kept) + 1)..Len(list)} = active \ Range(downloadsList)
        /\ \A id \in Range(downloadsList) \ active : id \notin Range(list)]_vars

\* C32's case: two jobs are shown, in another order than the registry holds
\* them: the item of the first job was removed when the job completed and
\* created again, after the item of the second job, when the job went on.
C32_Witness ==
  /\ Len(downloadsList) = 2
  /\ Len(activeDownloads) = 2
  /\ downloadsList # Keys(activeDownloads)

\* C33: an eviction timer that fires for a job whose stored status is neither
\* completed nor failed leaves the job in the registry.
C33_EvictionRemovesOnlyTerminal ==
  [][\A id \in DOMAIN timers :
       (/\ Has(activeDownloads, id)
        /\ Get(activeDownloads, id).status \notin TerminalStatuses
        /\ EvictionTimer(id)) =>
         Has(activeDownloads', id)]_vars

\* C34: when a start call of the single-item path returns the ID of a job
\* that the registry already holds, the job keeps its status and its progress.
C34_StartReturnKeepsJob ==
  [][\A k \in startPending :
       (/\ startLog[k].res # NoJob
        /\ Has(activeDownloads, startLog[k].res)
        /\ StartSingleReturn(k)) =>
         /\ Get(activeDownloads', startLog[k].res).status =
              Get(activeDownloads, startLog[k].res).status
         /\ Get(activeDownloads', startLog[k].res).progress =
              Get(activeDownloads, startLog[k].res).progress]_vars

\* C35: every start call issued carries the URL of the candidate whose title
\* it carries, a video of the fetched list.
C35_StartCallsCarryItemUrl ==
  \A i \in DOMAIN startLog :
    \E j \in DOMAIN currentMetadata.videos :
      /\ currentMetadata.videos[j].title = startLog[i].title
      /\ currentMetadata.videos[j].url = startLog[i].url

\* C36: every job that a step of handleCancelDownloads takes out of the
\* registry is tombstoned after the step.
C36_ClearRemovesOnlyTombstoned ==
  [][(\/ HandleCancelDownloads
      \/ \E k \in DOMAIN cancelAlls, ok \in BOOLEAN : CancelAllReturn(k, ok)) =>
       \A id \in KeySet(activeDownloads) \ KeySet(activeDownloads') :
         id \in cancelledDownloads']_vars

\* A step of the selection handlers or of a fetch.
SelectionStep ==
  \/ \E index \in Indices(currentMetadata) : ToggleVideo(index)
  \/ HandleSelectAllToggle
  \/ HandleFetchMetadata
  \/ \E url \in DOMAIN fetchCalls, n \in 1..MaxVideos : FetchReturnOk(url, n)

\* C37: the start calls of a playlist dispatch are issued for the first, the
\* second, ... of the videos it was invoked with, each with that video's URL
\* and title, and a dispatch that has ended has issued one call for each of
\* them; no step changes the videos of a dispatch, and a toggle, a select-all
\* click or a fetch changes no dispatch and no start call.
C37_BatchItemsFixedAtInvocation ==
  /\ [](\A d \in DOMAIN dispatches :
          LET run == dispatches[d] IN
          /\ {startLog[i].item : i \in CallsOf(d)} = 1..Cardinality(CallsOf(d))
          /\ \A i, j \in CallsOf(d) : i < j => startLog[i].item < startLog[j].item
          /\ \A i \in CallsOf(d) :
               /\ startLog[i].url = run.videos[startLog[i].item].url
               /\ startLog[i].title = run.videos[startLog[i].item].title
          /\ AllDone(run) => Cardinality(CallsOf(d)) = Len(run.videos))
  /\ [][/\ \A d \in DOMAIN dispatches : dispatches'[d].videos = dispatches[d].videos
        /\ SelectionStep => UNCHANGED <<dispatches, startLog, startPending>>]_vars

\* C37's case: a dispatch of three videos has issued its first start call and
\* has two videos left, while a list of two videos has been fetched and none
\* of them is selected.
C37_Witness ==
  \E d \in DOMAIN dispatches :
    /\ Len(dispatches[d].videos) = 3
    /\ dispatches[d].index = 1
    /\ Len(currentMetadata.videos) = 2
    /\ selectedVideos = {}

====
